---- MODULE Spec2Model ----
(***************************************************************************)
(* The linked hierarchy of testrail_data_model: one TestRailSuite, a pool  *)
(* of TestRailSection and TestRailCase instances, their link / unlink /    *)
(* move operations, TestRailAPIObjectBuilder.build_suite and the           *)
(* deletion handlers (DeletionHandler, MarkForDeletionHandler and their     *)
(* factory).  Instances are heap objects (identity = index in the heap     *)
(* sequence, which grows when from_data builds a new instance); a Python   *)
(* dict is an insertion-ordered sequence of [k, v] entries; a str is a     *)
(* sequence of one-character strings; a generator is its position.         *)
(***************************************************************************)
EXTENDS Integers, Sequences, FiniteSets, TLC

\* ------------------------------------------------------------------ bounds
NSec == 3
NCase == 2
MaxOps == 2
MaxLen == 2
MaxLimit == 2
MaxOffset == 1
DefaultLimit == 2
MaxTime == 3
MaxCount == 2
MaxCalls == 3

\* --------------------------------------------------------------- constants
None == 0
SuiteId == 1
TheSuite == 1
Slash == "/"
NoPath == <<"None">>
Diverges == <<"nonterminating">>

SecObjs == 1..NSec
CaseObjs == 1..NCase
Names == {<<"a">>, <<"b">>}
NameOf(i) == IF i % 2 = 1 THEN <<"a">> ELSE <<"b">>

VARIABLES secs, cases, suite, last, nops, handler, gen, stats, issued, fetch, probe

vars == <<secs, cases, suite, last, nops, handler, gen, stats, issued, fetch, probe>>

\* ------------------------------------------------------------ Python dicts
DictKeys(d) == {d[i].k : i \in 1..Len(d)}

DictHas(d, key) == \E i \in 1..Len(d) : d[i].k = key

DictGet(d, key) == IF DictHas(d, key) THEN d[CHOOSE i \in 1..Len(d) : d[i].k = key].v ELSE None

DictSet(d, key, val) ==
    IF DictHas(d, key)
    THEN [i \in 1..Len(d) |-> IF d[i].k = key THEN [k |-> key, v |-> val] ELSE d[i]]
    ELSE Append(d, [k |-> key, v |-> val])

DictDel(d, key) == SelectSeq(d, LAMBDA e : e.k # key)

DictItems(d) == {d[i] : i \in 1..Len(d)}

\* ------------------------------------------------------------------ heap
Heap == [sec |-> secs, cs |-> cases, su |-> suite]

NoError == [kind |-> "none"]

ValueError(field, child, against, expected) ==
    [kind |-> "ValueError", field |-> field, child |-> child, against |-> against, expected |-> expected]

AttributeError == [kind |-> "AttributeError"]

RemoteError == [kind |-> "RemoteError"]

\* TestRailSection.from_data / TestRailCase.from_data: an instance with no links
NewSection(id, sid, pid, name) ==
    [section_id |-> id, suite_id |-> sid, parent_id |-> pid, name |-> name,
     suite |-> None, parent |-> None, sections |-> <<>>, cases |-> <<>>]

NewCase(id, sid, secid) ==
    [case_id |-> id, suite_id |-> sid, section_id |-> secid, suite |-> None, section |-> None]

\* from_data builds a new instance: the heap gains one object, the others
\* keep their identity and their fields
Allocate(objs, new) == [i \in 1..Len(objs) + 1 |-> IF i <= Len(objs) THEN objs[i] ELSE new]

\* a local variable: the value of a call is computed once and then used
Bind(value, Body(_)) == Body(value)

NewSuite == [suite_id |-> SuiteId, sections |-> <<>>, cases |-> <<>>]

\* ------------------------------------------------------------- Case.link
\* variant: the case is never entered in section.cases
Case_link_NoSectionEntry(h, c, section) ==
    LET me == h.cs[c] IN
    IF me.suite_id # h.su.suite_id
    THEN [h |-> h, err |-> ValueError("case.suite_id", me.suite_id, "suite.suite_id", h.su.suite_id)]
    ELSE LET h1 == [h EXCEPT !.su.cases = DictSet(@, me.case_id, c),
                             !.cs[c].suite = TheSuite,
                             !.cs[c].section = section]
         IN IF section # None /\ h1.sec[section].section_id # me.section_id
            THEN [h |-> h1, err |-> ValueError("case.section_id", me.section_id,
                                               "section.section_id", h1.sec[section].section_id)]
            ELSE [h |-> h1, err |-> NoError]

Case_link(h, c, section) ==
    LET me == h.cs[c] IN
    IF me.suite_id # h.su.suite_id
    THEN [h |-> h, err |-> ValueError("case.suite_id", me.suite_id, "suite.suite_id", h.su.suite_id)]
    ELSE LET h1 == [h EXCEPT !.su.cases = DictSet(@, me.case_id, c),
                             !.cs[c].suite = TheSuite,
                             !.cs[c].section = section]
         IN IF section # None
            THEN IF h1.sec[section].section_id # me.section_id
                 THEN [h |-> h1, err |-> ValueError("case.section_id", me.section_id,
                                                    "section.section_id", h1.sec[section].section_id)]
                 ELSE [h |-> [h1 EXCEPT !.sec[section].cases = DictSet(@, me.case_id, c)],
                       err |-> NoError]
            ELSE [h |-> h1, err |-> NoError]

\* ----------------------------------------------------------- Case.unlink
\* variant: the section entry is removed only when no suite entry was
Case_unlink_SuiteElseSection(h, c) ==
    LET me == h.cs[c] IN
    IF me.suite # None /\ DictHas(h.su.cases, me.case_id)
    THEN [h EXCEPT !.su.cases = DictDel(@, me.case_id), !.cs[c].suite = None]
    ELSE IF me.section # None /\ DictHas(h.sec[me.section].cases, me.case_id)
    THEN [h EXCEPT !.sec[me.section].cases = DictDel(@, me.case_id), !.cs[c].section = None]
    ELSE h

Case_unlink(h, c) ==
    LET me == h.cs[c]
        h1 == IF me.suite # None /\ DictHas(h.su.cases, me.case_id)
              THEN [h EXCEPT !.su.cases = DictDel(@, me.case_id), !.cs[c].suite = None]
              ELSE h
    IN IF me.section # None /\ DictHas(h1.sec[me.section].cases, me.case_id)
       THEN [h1 EXCEPT !.sec[me.section].cases = DictDel(@, me.case_id), !.cs[c].section = None]
       ELSE h1

\* ---------------------------------------------------------- Section.link
\* variant: the parent's id is not compared with parent_id
Section_link_NoParentCheck(h, s, parent) ==
    LET me == h.sec[s] IN
    IF me.suite_id # h.su.suite_id
    THEN [h |-> h, err |-> ValueError("section.suite_id", me.suite_id, "suite.suite_id", h.su.suite_id)]
    ELSE LET h1 == [h EXCEPT !.su.sections = DictSet(@, me.section_id, s),
                             !.sec[s].suite = TheSuite,
                             !.sec[s].parent = parent]
         IN IF parent # None
            THEN [h |-> [h1 EXCEPT !.sec[parent].sections = DictSet(@, me.section_id, s)],
                  err |-> NoError]
            ELSE [h |-> h1, err |-> NoError]

Section_link(h, s, parent) ==
    LET me == h.sec[s] IN
    IF me.suite_id # h.su.suite_id
    THEN [h |-> h, err |-> ValueError("section.suite_id", me.suite_id, "suite.suite_id", h.su.suite_id)]
    ELSE LET h1 == [h EXCEPT !.su.sections = DictSet(@, me.section_id, s),
                             !.sec[s].suite = TheSuite,
                             !.sec[s].parent = parent]
         IN IF parent # None
            THEN IF h1.sec[parent].section_id # me.parent_id
                 THEN [h |-> h1, err |-> ValueError("section.parent_id", me.parent_id,
                                                    "parent.section_id", h1.sec[parent].section_id)]
                 ELSE [h |-> [h1 EXCEPT !.sec[parent].sections = DictSet(@, me.section_id, s)],
                       err |-> NoError]
            ELSE [h |-> h1, err |-> NoError]

\* -------------------------------------------------------- Section.unlink
RECURSIVE Section_unlink(_, _)
RECURSIVE UnlinkInnerSections(_, _)
RECURSIVE UnlinkInnerCases(_, _)

\* variant: the child sections are dropped without being unlinked
UnlinkInnerSections_Clear(h, s) == [h EXCEPT !.sec[s].sections = <<>>]

\* while len(self.sections) > 0: popitem(); inner_section.unlink()
UnlinkInnerSections(h, s) ==
    LET d == h.sec[s].sections IN
    IF Len(d) > 0
    THEN LET inner == d[Len(d)].v
             h1 == [h EXCEPT !.sec[s].sections = SubSeq(d, 1, Len(d) - 1)]
         IN UnlinkInnerSections(Section_unlink(h1, inner), s)
    ELSE h

\* while len(self.cases) > 0: popitem(); inner_case.unlink()
UnlinkInnerCases(h, s) ==
    LET d == h.sec[s].cases IN
    IF Len(d) > 0
    THEN LET inner == d[Len(d)].v
             h1 == [h EXCEPT !.sec[s].cases = SubSeq(d, 1, Len(d) - 1)]
         IN UnlinkInnerCases(Case_unlink(h1, inner), s)
    ELSE h

\* variant: the entry in parent.sections is left behind
Section_unlink_KeepsParentEntry(h, s) ==
    LET h1 == UnlinkInnerCases(UnlinkInnerSections(h, s), s)
        me == h1.sec[s]
        h2 == IF me.suite # None /\ DictHas(h1.su.sections, me.section_id)
              THEN [h1 EXCEPT !.su.sections = DictDel(@, me.section_id), !.sec[s].suite = None]
              ELSE h1
    IN [h2 EXCEPT !.sec[s].parent = None]

Section_unlink(h, s) ==
    LET h1 == UnlinkInnerCases(UnlinkInnerSections(h, s), s)
        me == h1.sec[s]
        h2 == IF me.suite # None /\ DictHas(h1.su.sections, me.section_id)
              THEN [h1 EXCEPT !.su.sections = DictDel(@, me.section_id), !.sec[s].suite = None]
              ELSE h1
        p == h2.sec[s].parent
    IN IF p # None /\ DictHas(h2.sec[p].sections, me.section_id)
       THEN [h2 EXCEPT !.sec[p].sections = DictDel(@, me.section_id), !.sec[s].parent = None]
       ELSE h2

\* ---------------------------------------------------------- Section.move
\* variant: the old entry is not removed before relinking
Section_move_NoUnlink(h, s, new_parent) ==
    LET su == h.sec[s].suite
        h2 == [h EXCEPT !.sec[s].parent_id =
                   IF new_parent # None THEN h.sec[new_parent].section_id ELSE None]
    IN IF su = None
       THEN [h |-> h2, err |-> AttributeError]
       ELSE Section_link(h2, s, new_parent)

Section_move(h, s, new_parent) ==
    LET su == h.sec[s].suite
        h1 == Section_unlink(h, s)
        h2 == [h1 EXCEPT !.sec[s].parent_id =
                   IF new_parent # None THEN h1.sec[new_parent].section_id ELSE None]
    IN IF su = None
       THEN [h |-> h2, err |-> AttributeError]
       ELSE Section_link(h2, s, new_parent)

\* ---------------------------------------------------------- Section.path
RECURSIVE StrJoin(_, _)
StrJoin(sep, parts) ==
    IF Len(parts) = 0 THEN <<>>
    ELSE IF Len(parts) = 1 THEN parts[1]
    ELSE parts[1] \o <<sep>> \o StrJoin(sep, Tail(parts))

Reversed(sq) == [i \in 1..Len(sq) |-> sq[Len(sq) + 1 - i]]

\* while section is not None: section_names.append(section.name); section = section.parent
\* (a chain longer than the heap revisits an instance: the loop never ends)
RECURSIVE PathLoop(_, _, _, _)
PathLoop(h, section, section_names, fuel) ==
    IF section = None THEN [ends |-> TRUE, names |-> section_names]
    ELSE IF fuel = 0 THEN [ends |-> FALSE, names |-> <<>>]
    ELSE PathLoop(h, h.sec[section].parent, Append(section_names, h.sec[section].name), fuel - 1)

PathTerminates(h, s) == PathLoop(h, s, <<>>, Len(h.sec)).ends

\* variant: the names are joined leaf first
Section_path_LeafFirst(h, s) ==
    LET walk == PathLoop(h, s, <<>>, Len(h.sec)) IN
    IF walk.ends THEN StrJoin(Slash, walk.names) ELSE Diverges

Section_path(h, s) ==
    LET walk == PathLoop(h, s, <<>>, Len(h.sec)) IN
    IF walk.ends THEN StrJoin(Slash, Reversed(walk.names)) ELSE Diverges

Case_path(h, c) == IF h.cs[c].section # None THEN Section_path(h, h.cs[c].section) ELSE NoPath

\* ----------------------------- Suite.direct_sections, Suite.direct_cases
\* the keys of the comprehension, in dict order
Suite_direct_sections(h) ==
    SelectSeq(h.su.sections, LAMBDA e : h.sec[e.v].parent_id = None)

Suite_direct_cases(h) ==
    SelectSeq(h.su.cases, LAMBDA e : h.cs[e.v].section_id = None)

\* ------------------------------------------------- Suite.section_for_path
Suite_all_section_paths(h) ==
    [i \in 1..Len(h.su.sections) |->
        [k |-> h.su.sections[i].k, v |-> Section_path(h, h.su.sections[i].v)]]

PathsTerminate(h) == \A i \in 1..Len(h.su.sections) : PathTerminates(h, h.su.sections[i].v)

\* first match in dict order, None when there is none
Suite_section_for_path(h, path) ==
    LET paths == Suite_all_section_paths(h)
        hits == {i \in 1..Len(paths) : paths[i].v = path}
    IN IF hits = {} THEN None
       ELSE DictGet(h.su.sections, paths[CHOOSE i \in hits : \A j \in hits : i <= j].k)

\* ------------------------------------- TestRailAPIObjectBuilder.build_suite
RECURSIVE SectionDict(_, _, _)
SectionDict(h, fetched, d) ==
    IF Len(fetched) = 0 THEN d
    ELSE SectionDict(h, Tail(fetched), DictSet(d, h.sec[Head(fetched)].section_id, Head(fetched)))

RECURSIVE CaseDict(_, _, _)
CaseDict(h, fetched, d) ==
    IF Len(fetched) = 0 THEN d
    ELSE CaseDict(h, Tail(fetched), DictSet(d, h.cs[Head(fetched)].case_id, Head(fetched)))

RECURSIVE DictUpdate(_, _)
DictUpdate(d, other) ==
    IF Len(other) = 0 THEN d
    ELSE DictUpdate(DictSet(d, Head(other).k, Head(other).v), Tail(other))

\* variant: every section is linked as a root
RECURSIVE LinkSections_AllRoots(_, _, _)
LinkSections_AllRoots(h, section_dict, i) ==
    IF i > Len(section_dict) THEN [h |-> h, err |-> NoError]
    ELSE LET r == Section_link(h, section_dict[i].v, None)
         IN IF r.err # NoError THEN r ELSE LinkSections_AllRoots(r.h, section_dict, i + 1)

RECURSIVE LinkSections(_, _, _)
LinkSections(h, section_dict, i) ==
    IF i > Len(section_dict) THEN [h |-> h, err |-> NoError]
    ELSE LET section == section_dict[i].v
             parent == DictGet(section_dict, h.sec[section].parent_id)
             r == Section_link(h, section, parent)
         IN IF r.err # NoError THEN r ELSE LinkSections(r.h, section_dict, i + 1)

\* variant: section_dict[case.section_id] instead of section_dict.get(...)
RECURSIVE LinkCases_StrictLookup(_, _, _, _)
LinkCases_StrictLookup(h, section_dict, case_dict, i) ==
    IF i > Len(case_dict) THEN [h |-> h, err |-> NoError]
    ELSE LET case == case_dict[i].v
             section == DictGet(section_dict, h.cs[case].section_id)
             r == Case_link(h, case, section)
         IN IF ~DictHas(section_dict, h.cs[case].section_id) THEN [h |-> h, err |-> [kind |-> "KeyError"]]
            ELSE IF r.err # NoError THEN r
            ELSE LinkCases_StrictLookup(r.h, section_dict, case_dict, i + 1)

RECURSIVE LinkCases(_, _, _, _)
LinkCases(h, section_dict, case_dict, i) ==
    IF i > Len(case_dict) THEN [h |-> h, err |-> NoError]
    ELSE LET case == case_dict[i].v
             section == DictGet(section_dict, h.cs[case].section_id)
             r == Case_link(h, case, section)
         IN IF r.err # NoError THEN r ELSE LinkCases(r.h, section_dict, case_dict, i + 1)

build_suite(h, sections, fcases) ==
    LET section_dict == SectionDict(h, sections, <<>>)
        case_dict == CaseDict(h, fcases, <<>>)
        h1 == [h EXCEPT !.su.sections = DictUpdate(@, section_dict),
                        !.su.cases = DictUpdate(@, case_dict)]
        r == LinkSections(h1, section_dict, 1)
    IN IF r.err # NoError THEN r ELSE LinkCases(r.h, section_dict, case_dict, 1)

\* ------------------------------------------------------- DeletionHandler
SoftInt(b) == IF b THEN 1 ELSE 0

\* variant: the section is never unlinked locally
delete_section_NoUnlink(h, s, isSoft, remoteOk) ==
    LET req == [call |-> "delete_section", id |-> h.sec[s].section_id, soft |-> SoftInt(isSoft)] IN
    [h |-> h, err |-> IF remoteOk THEN NoError ELSE RemoteError, reqs |-> <<req>>]

\* variant: the section is unlinked before the request is sent
delete_section_UnlinkFirst(h, s, isSoft, remoteOk) ==
    LET req == [call |-> "delete_section", id |-> h.sec[s].section_id, soft |-> SoftInt(isSoft)] IN
    [h |-> IF ~isSoft THEN Section_unlink(h, s) ELSE h,
     err |-> IF remoteOk THEN NoError ELSE RemoteError, reqs |-> <<req>>]

delete_section(h, s, isSoft, remoteOk) ==
    LET req == [call |-> "delete_section", id |-> h.sec[s].section_id, soft |-> SoftInt(isSoft)] IN
    IF ~remoteOk THEN [h |-> h, err |-> RemoteError, reqs |-> <<req>>]
    ELSE [h |-> IF ~isSoft THEN Section_unlink(h, s) ELSE h, err |-> NoError, reqs |-> <<req>>]

\* variant: the case is unlinked locally whatever the soft flag
delete_case_AlwaysUnlink(h, c, isSoft, remoteOk) ==
    LET req == [call |-> "delete_case", id |-> h.cs[c].case_id, soft |-> SoftInt(isSoft)] IN
    IF ~remoteOk THEN [h |-> h, err |-> RemoteError, reqs |-> <<req>>]
    ELSE [h |-> Case_unlink(h, c), err |-> NoError, reqs |-> <<req>>]

delete_case(h, c, isSoft, remoteOk) ==
    LET req == [call |-> "delete_case", id |-> h.cs[c].case_id, soft |-> SoftInt(isSoft)] IN
    IF ~remoteOk THEN [h |-> h, err |-> RemoteError, reqs |-> <<req>>]
    ELSE [h |-> IF ~isSoft THEN Case_unlink(h, c) ELSE h, err |-> NoError, reqs |-> <<req>>]

\* ------------------------------------------------------------ str helpers
Startswith(str, prefix) == Len(prefix) <= Len(str) /\ SubSeq(str, 1, Len(prefix)) = prefix

\* variant: the path is split at its first separator
Rsplit_AtFirstSlash(path) ==
    LET slashes == {i \in 1..Len(path) : path[i] = Slash}
        k == IF slashes = {} THEN 0 ELSE CHOOSE i \in slashes : \A j \in slashes : i <= j
    IN IF k = 0 THEN <<path>>
       ELSE <<SubSeq(path, 1, k - 1), SubSeq(path, k + 1, Len(path))>>

\* path.rsplit('/', maxsplit=1)
Rsplit(path) ==
    LET slashes == {i \in 1..Len(path) : path[i] = Slash}
        k == IF slashes = {} THEN 0 ELSE CHOOSE i \in slashes : \A j \in slashes : j <= i
    IN IF k = 0 THEN <<path>>
       ELSE <<SubSeq(path, 1, k - 1), SubSeq(path, k + 1, Len(path))>>

\* ------------------------- TestRailAPIObjectBuilder.create_new_section_for_path
\* the service numbers a new record after every record it has
NextSectionId(h) ==
    LET ids == {h.sec[i].section_id : i \in 1..Len(h.sec)} \cup {0}
    IN 1 + CHOOSE m \in ids : \A n \in ids : n <= m

\* add_section: one request; from_data on the response builds a new instance
add_section(h, name, suite_id, parent_id) ==
    [h |-> [h EXCEPT !.sec = Allocate(@, NewSection(NextSectionId(h), suite_id, parent_id, name))],
     new |-> Len(h.sec) + 1,
     req |-> [call |-> "add_section", name |-> name, suite_id |-> suite_id, parent_id |-> parent_id]]

create_new_section_for_path(h, path, remoteOk) ==
    LET split_paths == Rsplit(path)
        name == split_paths[Len(split_paths)]
    IN Bind(IF Len(split_paths) = 1 THEN None ELSE Suite_section_for_path(h, split_paths[1]),
            LAMBDA parent :
       Bind(add_section(h, name, h.su.suite_id,
                        IF parent = None THEN None ELSE h.sec[parent].section_id),
            LAMBDA a :
       IF ~remoteOk THEN [h |-> h, err |-> RemoteError, reqs |-> <<a.req>>, ret |-> None]
       ELSE Bind(Section_link(a.h, a.new, parent),
                 LAMBDA l : [h |-> l.h, err |-> l.err, reqs |-> <<a.req>>, ret |-> a.new])))

\* ------------------------------------------------------- deletion handlers
DefaultName == <<"_", "_", "t", "o", "_", "b", "e", "_", "d", "e", "l", "e", "t", "e", "d", "_", "_">>

SectionsSuffix == <<"/", "s", "e", "c", "t", "i", "o", "n", "s">>

NoHandler == [kind |-> "none", soft |-> FALSE, name |-> <<>>, cache |-> <<>>]

\* DeletionHandler.__init__
DeletionHandler(soft) == [kind |-> "DeletionHandler", soft |-> soft, name |-> <<>>, cache |-> <<>>]

\* MarkForDeletionHandler.__init__: to_be_deleted_section_name or "__to_be_deleted__"
MarkForDeletionHandler(to_be_deleted_section_name) ==
    [kind |-> "MarkForDeletionHandler", soft |-> FALSE,
     name |-> IF to_be_deleted_section_name.given /\ to_be_deleted_section_name.value # <<>>
              THEN to_be_deleted_section_name.value ELSE DefaultName,
     cache |-> <<>>]

\* a keyword argument that is given or absent; settings.get(key, default)
Given(value) == [given |-> TRUE, value |-> value]

AbsentFlag == [given |-> FALSE, value |-> FALSE]

AbsentName == [given |-> FALSE, value |-> <<>>]

SettingsGet(option, default) == IF option.given THEN option.value ELSE default

\* variant: the DeletionHandler is hard unless soft is given
deletion_handler_factory_HardByDefault(settings) ==
    IF SettingsGet(settings.mark_for_deletion, TRUE)
    THEN MarkForDeletionHandler(settings.mark_for_deletion_section_name)
    ELSE DeletionHandler(SettingsGet(settings.soft, FALSE))

deletion_handler_factory(settings) ==
    IF SettingsGet(settings.mark_for_deletion, TRUE)
    THEN MarkForDeletionHandler(settings.mark_for_deletion_section_name)
    ELSE DeletionHandler(SettingsGet(settings.soft, TRUE))

\* --------------------------- MarkForDeletionHandler.to_be_deleted_sections
\* variant: the section is created without being looked up first
EnsureSection_AlwaysCreates(st, path, failAt) ==
    IF st.err # NoError THEN st
    ELSE Bind(create_new_section_for_path(st.h, path, failAt # Len(st.reqs) + 1),
              LAMBDA c :
                 [h |-> c.h, err |-> c.err, reqs |-> st.reqs \o c.reqs,
                  ret |-> IF c.err = NoError THEN Append(st.ret, c.ret) ELSE st.ret])

\* one round of "for path in ensure_paths"; failAt is the position, among the
\* remote requests of the running operation, of the request that raises
EnsureSection(st, path, failAt) ==
    IF st.err # NoError THEN st
    ELSE Bind(Suite_section_for_path(st.h, path), LAMBDA section :
         IF section # None THEN [st EXCEPT !.ret = Append(@, section)]
         ELSE Bind(create_new_section_for_path(st.h, path, failAt # Len(st.reqs) + 1),
                   LAMBDA c :
                      [h |-> c.h, err |-> c.err, reqs |-> st.reqs \o c.reqs,
                       ret |-> IF c.err = NoError THEN Append(st.ret, c.ret) ELSE st.ret]))

\* @property @lru_cache: a result is kept per handler, an exception is not
to_be_deleted_sections(h, hd, failAt) ==
    IF hd.cache # <<>>
    THEN [h |-> h, hd |-> hd, err |-> NoError, reqs |-> <<>>, ret |-> hd.cache]
    ELSE Bind([h |-> h, err |-> NoError, reqs |-> <<>>, ret |-> <<>>], LAMBDA st0 :
         Bind(EnsureSection(st0, hd.name, failAt), LAMBDA st1 :
         Bind(EnsureSection(st1, hd.name \o SectionsSuffix, failAt), LAMBDA st2 :
            IF st2.err # NoError
            THEN [h |-> st2.h, hd |-> hd, err |-> st2.err, reqs |-> st2.reqs, ret |-> <<>>]
            ELSE [h |-> st2.h, hd |-> [hd EXCEPT !.cache = st2.ret], err |-> NoError,
                  reqs |-> st2.reqs, ret |-> st2.ret])))

\* ----------------------------------- TestRailAPIObjectBuilder.update_case
\* what the service may answer to update_case: the record of the case, in
\* the suite it reports and in the requested section or still in the old one
Responses ==
    {[suite_id |-> SuiteId, moved |-> TRUE], [suite_id |-> SuiteId, moved |-> FALSE],
     [suite_id |-> SuiteId + 1, moved |-> TRUE]}

\* variant: the case is deleted remotely instead of updated
update_case_AsDelete(h, c, section_id, resp) ==
    [h |-> [h EXCEPT !.cs = Allocate(@, NewCase(h.cs[c].case_id, resp.suite_id,
                                       IF resp.moved THEN section_id ELSE h.cs[c].section_id))],
     new |-> Len(h.cs) + 1,
     req |-> [call |-> "delete_case", id |-> h.cs[c].case_id, soft |-> 0]]

\* one request; from_data on the response builds a new instance
update_case(h, c, section_id, resp) ==
    [h |-> [h EXCEPT !.cs = Allocate(@, NewCase(h.cs[c].case_id, resp.suite_id,
                                       IF resp.moved THEN section_id ELSE h.cs[c].section_id))],
     new |-> Len(h.cs) + 1,
     req |-> [call |-> "update_case", id |-> h.cs[c].case_id, section_id |-> section_id]]

\* ------------------------------------ MarkForDeletionHandler.delete_section
\* variant: the section is moved locally before the request is sent
Mark_delete_section_MovesFirst(h, hd, section, failAt) ==
    Bind(to_be_deleted_sections(h, hd, failAt), LAMBDA t :
    IF t.err # NoError
    THEN [h |-> t.h, hd |-> t.hd, err |-> t.err, reqs |-> t.reqs, ret |-> <<>>]
    ELSE LET to_be_deleted_sections_section == t.ret[2]
             req == [call |-> "move_section", id |-> t.h.sec[section].section_id,
                     parent_id |-> t.h.sec[to_be_deleted_sections_section].section_id]
         IN Bind(Section_move(t.h, section, to_be_deleted_sections_section), LAMBDA m :
            IF m.err # NoError
            THEN [h |-> m.h, hd |-> t.hd, err |-> m.err, reqs |-> t.reqs, ret |-> <<>>]
            ELSE IF failAt = Len(t.reqs) + 1
            THEN [h |-> m.h, hd |-> t.hd, err |-> RemoteError, reqs |-> Append(t.reqs, req),
                  ret |-> <<>>]
            ELSE [h |-> m.h, hd |-> t.hd, err |-> NoError, reqs |-> Append(t.reqs, req),
                  ret |-> <<section>>]))

Mark_delete_section(h, hd, section, failAt) ==
    Bind(to_be_deleted_sections(h, hd, failAt), LAMBDA t :
    IF t.err # NoError
    THEN [h |-> t.h, hd |-> t.hd, err |-> t.err, reqs |-> t.reqs, ret |-> <<>>]
    ELSE LET to_be_deleted_sections_section == t.ret[2]
             req == [call |-> "move_section", id |-> t.h.sec[section].section_id,
                     parent_id |-> t.h.sec[to_be_deleted_sections_section].section_id]
         IN IF failAt = Len(t.reqs) + 1
            THEN [h |-> t.h, hd |-> t.hd, err |-> RemoteError, reqs |-> Append(t.reqs, req),
                  ret |-> <<>>]
            ELSE Bind(Section_move(t.h, section, to_be_deleted_sections_section), LAMBDA m :
                    [h |-> m.h, hd |-> t.hd, err |-> m.err, reqs |-> Append(t.reqs, req),
                     ret |-> IF m.err = NoError THEN <<section>> ELSE <<>>]))

\* --------------------------------------- MarkForDeletionHandler.delete_case
\* variant: the given instance is not unlinked
Mark_delete_case_KeepsOldCase(h, hd, case, failAt, resp) ==
    Bind(to_be_deleted_sections(h, hd, failAt), LAMBDA t :
    IF t.err # NoError
    THEN [h |-> t.h, hd |-> t.hd, err |-> t.err, reqs |-> t.reqs, ret |-> <<>>]
    ELSE LET to_be_deleted_section == t.ret[1] IN
         Bind(update_case(t.h, case, t.h.sec[to_be_deleted_section].section_id, resp),
              LAMBDA u :
         IF failAt = Len(t.reqs) + 1
         THEN [h |-> t.h, hd |-> t.hd, err |-> RemoteError, reqs |-> Append(t.reqs, u.req),
               ret |-> <<>>]
         ELSE Bind(Case_link(u.h, u.new, to_be_deleted_section), LAMBDA l :
                 [h |-> l.h, hd |-> t.hd, err |-> l.err, reqs |-> Append(t.reqs, u.req),
                  ret |-> IF l.err = NoError THEN <<u.new>> ELSE <<>>])))

Mark_delete_case(h, hd, case, failAt, resp) ==
    Bind(to_be_deleted_sections(h, hd, failAt), LAMBDA t :
    IF t.err # NoError
    THEN [h |-> t.h, hd |-> t.hd, err |-> t.err, reqs |-> t.reqs, ret |-> <<>>]
    ELSE LET to_be_deleted_section == t.ret[1] IN
         Bind(update_case(t.h, case, t.h.sec[to_be_deleted_section].section_id, resp),
              LAMBDA u :
         IF failAt = Len(t.reqs) + 1
         THEN [h |-> t.h, hd |-> t.hd, err |-> RemoteError, reqs |-> Append(t.reqs, u.req),
               ret |-> <<>>]
         ELSE Bind(Case_link(Case_unlink(u.h, case), u.new, to_be_deleted_section), LAMBDA l :
                 [h |-> l.h, hd |-> t.hd, err |-> l.err, reqs |-> Append(t.reqs, u.req),
                  ret |-> IF l.err = NoError THEN <<u.new>> ELSE <<>>])))

\* ----------------------------------------------------- bulk operations
\* One round of each generator's for loop, up to its yield; ret is what the
\* round yields (nothing when it raises).

\* MarkForDeletionHandler.delete_sections
Mark_delete_sections(h, hd, section, failAt) ==
    LET path == Section_path(h, section) IN
    IF ~Startswith(path, hd.name)
    THEN Mark_delete_section(h, hd, section, failAt)
    ELSE [h |-> h, hd |-> hd, err |-> NoError, reqs |-> <<>>, ret |-> <<section>>]

\* MarkForDeletionHandler.delete_cases; case.path is None for a case without
\* section, and None has no startswith
Mark_delete_cases(h, hd, case, failAt, resp) ==
    IF h.cs[case].section = None
    THEN [h |-> h, hd |-> hd, err |-> AttributeError, reqs |-> <<>>, ret |-> <<>>]
    ELSE IF ~Startswith(Case_path(h, case), hd.name)
    THEN Mark_delete_case(h, hd, case, failAt, resp)
    ELSE [h |-> h, hd |-> hd, err |-> NoError, reqs |-> <<>>, ret |-> <<case>>]

\* variant: the deletion is always requested as a hard one
delete_sections_DropsSoft(h, hd, section, failAt) ==
    Bind(delete_section(h, section, FALSE, failAt # 1), LAMBDA d :
       [h |-> d.h, hd |-> hd, err |-> d.err, reqs |-> d.reqs,
        ret |-> IF d.err = NoError THEN <<None>> ELSE <<>>])

\* DeletionHandler.delete_sections (a bare yield yields None)
delete_sections(h, hd, section, failAt) ==
    Bind(delete_section(h, section, hd.soft, failAt # 1), LAMBDA d :
       [h |-> d.h, hd |-> hd, err |-> d.err, reqs |-> d.reqs,
        ret |-> IF d.err = NoError THEN <<None>> ELSE <<>>])

\* DeletionHandler.delete_cases
delete_cases(h, hd, case, failAt) ==
    Bind(delete_case(h, case, hd.soft, failAt # 1), LAMBDA d :
       [h |-> d.h, hd |-> hd, err |-> d.err, reqs |-> d.reqs,
        ret |-> IF d.err = NoError THEN <<None>> ELSE <<>>])

\* a generator object: the part of its input list the loop has reached, what
\* it has yielded and requested, the exception that ended it, and whether
\* the list was exhausted (the rest of the list is read only when reached)
NoGen == [kind |-> "none", items |-> <<>>, results |-> <<>>, reqs |-> <<>>, err |-> NoError,
          done |-> FALSE]

NewGen(kind) == [NoGen EXCEPT !.kind = kind]

\* the generator can still be resumed
Live(g) == g.kind # "none" /\ g.err = NoError /\ ~g.done

\* the for loop of the caller has run to the end of the list
Consumed(g) == g.kind # "none" /\ g.done

\* ------------------------------------------------ TestRailAPIRequestStats
\* the counters, in the order of their declaration
CounterNames ==
    <<"get_project", "get_projects", "get_suite", "get_suites", "get_section", "get_sections",
      "add_section", "move_section", "delete_section", "get_case", "get_cases", "add_case",
      "update_case", "update_cases", "delete_case", "delete_cases", "get_case_fields",
      "get_case_types">>

Counters == {CounterNames[i] : i \in 1..Len(CounterNames)}

\* the counters the total property adds up
Summed ==
    <<"get_project", "get_projects", "get_suite", "get_suites", "get_section", "get_sections",
      "add_section", "move_section", "delete_section", "get_case", "get_cases", "add_case",
      "update_case", "update_cases", "delete_case", "get_case_fields", "get_case_types">>

\* a new instance: every counter is 0
NewStats == [n \in Counters |-> 0]

RECURSIVE SumOver(_, _)
SumOver(st, names) == IF names = <<>> THEN 0 ELSE st[Head(names)] + SumOver(st, Tail(names))

\* variant: the total adds up every declared counter
Stats_total_AllCounters(st) == SumOver(st, CounterNames)

Stats_total(st) == SumOver(st, Summed)

\* for key in asdict(self): setattr(self, key, 0)
Stats_reset(st) == [n \in DOMAIN st |-> 0]

\* self.stats.<name> += 1
Inc(st, name) == [st EXCEPT ![name] = @ + 1]

\* the counter incremented in front of each request of the deletion handlers
\* and of the builder operations they use
CounterOf(call) ==
    CASE call = "delete_section" -> "delete_section"
      [] call = "delete_case" -> "delete_case"
      [] call = "move_section" -> "move_section"
      [] call = "add_section" -> "add_section"
      [] call = "update_case" -> "update_case"

\* the increments that go with the requests of one operation
RECURSIVE Account(_, _)
Account(st, reqs) ==
    IF reqs = <<>> THEN st ELSE Account(Inc(st, CounterOf(Head(reqs).call)), Tail(reqs))

\* the requests the service has received since the last reset, per call
RECURSIVE Received(_, _)
Received(seen, reqs) ==
    IF reqs = <<>> THEN seen ELSE Received(Inc(seen, Head(reqs).call), Tail(reqs))

\* no paginated fetch, no running build_suite
NoFetch == [pc |-> "idle"]

\* no record under conversion
NoProbe == [op |-> "none"]

\* ------------------------------------------------------------ initial pools
\* Instances as from_data leaves them.  The base pool is a chain of sections
\* (1 <- 2 <- ... <- NSec) with one case per section below the root; a pool
\* variant alters the last section or the last case.
BaseSection(i) == NewSection(i, SuiteId, IF i = 1 THEN None ELSE i - 1, NameOf(i))

BaseCase(j) == NewCase(j, SuiteId, IF j + 1 <= NSec THEN j + 1 ELSE NSec)

SecVariants == {"base", "twin", "selfparent", "foreign"}

CaseVariants == {"base", "twin", "foreign"}

PoolSection(i, v) ==
    IF i < NSec \/ i = 1 \/ v = "base" THEN BaseSection(i)
    ELSE IF v = "twin" THEN NewSection(i - 1, SuiteId, BaseSection(i - 1).parent_id, NameOf(i))
    ELSE IF v = "selfparent" THEN NewSection(i, SuiteId, i, NameOf(i))
    ELSE NewSection(i, SuiteId + 1, i - 1, NameOf(i))

PoolCase(j, v) ==
    IF j < NCase \/ j = 1 \/ v = "base" THEN BaseCase(j)
    ELSE IF v = "twin" THEN NewCase(j - 1, SuiteId, 1)
    ELSE NewCase(j, SuiteId + 1, BaseCase(j).section_id)

InitLast(h) ==
    [op |-> "init", obj |-> None, arg |-> None, soft |-> FALSE, ok |-> TRUE,
     fs |-> <<>>, fc |-> <<>>, err |-> NoError, reqs |-> <<>>,
     pre |-> h, after_link |-> FALSE, base |-> h,
     ret |-> <<>>, hd |-> NoHandler, marked |-> {},
     cfg |-> [mark_for_deletion |-> AbsentFlag, mark_for_deletion_section_name |-> AbsentName,
              soft |-> AbsentFlag]]

\* a new stats object, no request sent, no fetch under way
InitAccounting == stats = NewStats /\ issued = NewStats /\ fetch = NoFetch /\ probe = NoProbe

Init ==
    /\ \E sv \in SecVariants, cv \in CaseVariants :
          /\ sv = "base" \/ cv = "base"
          /\ secs = [i \in SecObjs |-> PoolSection(i, sv)]
          /\ cases = [j \in CaseObjs |-> PoolCase(j, cv)]
    /\ suite = NewSuite
    /\ nops = 0
    /\ handler = NoHandler
    /\ gen = NoGen
    /\ last = InitLast([sec |-> secs, cs |-> cases, su |-> suite])
    /\ InitAccounting

\* ---------------------------------------------------------------- actions
Fresh(h) ==
    /\ h.su.sections = <<>> /\ h.su.cases = <<>>
    /\ \A s \in SecObjs : /\ h.sec[s].suite = None /\ h.sec[s].parent = None
                          /\ h.sec[s].sections = <<>> /\ h.sec[s].cases = <<>>
    /\ \A c \in CaseObjs : h.cs[c].suite = None /\ h.cs[c].section = None

Commit(h, rec) ==
    /\ secs' = h.sec
    /\ cases' = h.cs
    /\ suite' = h.su
    /\ nops' = nops + 1
    /\ last' = rec
    /\ stats' = Account(stats, rec.reqs)
    /\ issued' = Received(issued, rec.reqs)
    /\ UNCHANGED <<handler, gen, fetch, probe>>

OpRecord(op, obj, arg, r) ==
    [InitLast(Heap) EXCEPT !.op = op, !.obj = obj, !.arg = arg, !.err = r.err]

LinkSection(s, parent) ==
    /\ nops < MaxOps
    /\ LET r == Section_link(Heap, s, parent)
       IN Commit(r.h, OpRecord("Section.link", s, parent, r))

LinkCase(c, section) ==
    /\ nops < MaxOps
    /\ LET r == Case_link(Heap, c, section)
       IN Commit(r.h, OpRecord("Case.link", c, section, r))

\* an unlink that directly follows the successful link of the same instance
\* also remembers the state before that link
FollowsLink(op, obj) == last.op = op /\ last.obj = obj /\ last.err = NoError

UnlinkSection(s) ==
    /\ nops < MaxOps
    /\ LET r == [h |-> Section_unlink(Heap, s), err |-> NoError]
           fl == FollowsLink("Section.link", s)
       IN Commit(r.h, [OpRecord("Section.unlink", s, IF fl THEN last.arg ELSE None, r) EXCEPT
                          !.after_link = fl, !.base = IF fl THEN last.pre ELSE Heap])

UnlinkCase(c) ==
    /\ nops < MaxOps
    /\ LET r == [h |-> Case_unlink(Heap, c), err |-> NoError]
           fl == FollowsLink("Case.link", c)
       IN Commit(r.h, [OpRecord("Case.unlink", c, IF fl THEN last.arg ELSE None, r) EXCEPT
                          !.after_link = fl, !.base = IF fl THEN last.pre ELSE Heap])

MoveSection(s, new_parent) ==
    /\ nops < MaxOps
    /\ LET r == Section_move(Heap, s, new_parent)
       IN Commit(r.h, OpRecord("Section.move", s, new_parent, r))

\* The service answers a request scoped by suite id with records that carry
\* that suite id, one record per id, whose parent ids form a forest.
RECURSIVE SetToSeq(_)
SetToSeq(S) ==
    IF S = {} THEN <<>>
    ELSE LET m == CHOOSE x \in S : \A y \in S : x <= y IN <<m>> \o SetToSeq(S \ {m})

RECURSIVE ParentIdChainEnds(_, _, _, _)
ParentIdChainEnds(h, F, id, fuel) ==
    IF ~\E s \in F : h.sec[s].section_id = id THEN TRUE
    ELSE IF fuel = 0 THEN FALSE
    ELSE ParentIdChainEnds(h, F, h.sec[CHOOSE s \in F : h.sec[s].section_id = id].parent_id, fuel - 1)

Fetchable(h, F, G) ==
    /\ \A s \in F : h.sec[s].suite_id = h.su.suite_id
    /\ \A c \in G : h.cs[c].suite_id = h.su.suite_id
    /\ \A s, t \in F : h.sec[s].section_id = h.sec[t].section_id => s = t
    /\ \A c, e \in G : h.cs[c].case_id = h.cs[e].case_id => c = e
    /\ \A s \in F : ParentIdChainEnds(h, F, h.sec[s].section_id, NSec)

BuildSuite(F, G) ==
    /\ nops < MaxOps
    /\ Fresh(Heap)
    /\ Fetchable(Heap, F, G)
    /\ LET r == build_suite(Heap, SetToSeq(F), SetToSeq(G))
       IN Commit(r.h, [OpRecord("build_suite", None, None, r) EXCEPT
                          !.fs = SetToSeq(F), !.fc = SetToSeq(G)])

DeleteSection(s, isSoft, remoteOk) ==
    /\ nops < MaxOps
    /\ LET r == delete_section(Heap, s, isSoft, remoteOk)
       IN Commit(r.h, [OpRecord("delete_section", s, None, r) EXCEPT
                          !.soft = isSoft, !.ok = remoteOk, !.reqs = r.reqs])

DeleteCase(c, isSoft, remoteOk) ==
    /\ nops < MaxOps
    /\ LET r == delete_case(Heap, c, isSoft, remoteOk)
       IN Commit(r.h, [OpRecord("delete_case", c, None, r) EXCEPT
                          !.soft = isSoft, !.ok = remoteOk, !.reqs = r.reqs])

Next ==
    \/ \E s \in SecObjs, p \in SecObjs \cup {None} : LinkSection(s, p)
    \/ \E c \in CaseObjs, s \in SecObjs \cup {None} : LinkCase(c, s)
    \/ \E s \in SecObjs : UnlinkSection(s)
    \/ \E c \in CaseObjs : UnlinkCase(c)
    \/ \E s \in SecObjs, p \in SecObjs \cup {None} : MoveSection(s, p)
    \/ \E F \in SUBSET SecObjs, G \in SUBSET CaseObjs : BuildSuite(F, G)
    \/ \E s \in SecObjs, b \in BOOLEAN, ok \in BOOLEAN : DeleteSection(s, b, ok)
    \/ \E c \in CaseObjs, b \in BOOLEAN, ok \in BOOLEAN : DeleteCase(c, b, ok)

Spec == Init /\ [][Next]_vars

\* ------------------------------------------ build_suite over fetched records
\* Every section and case record of one suite: ids are the pool indices, a
\* parent_id / section_id is None, the id of a fetched section, or an id no
\* fetched section has (NSec + 1).
InitBuild ==
    /\ secs \in [SecObjs -> {NewSection(i, SuiteId, pid, NameOf(i)) :
                                i \in SecObjs, pid \in {None} \cup (1..NSec + 1)}]
    /\ \A i \in SecObjs : secs[i].section_id = i
    /\ cases \in [CaseObjs -> {NewCase(j, SuiteId, sid) :
                                  j \in CaseObjs, sid \in {None} \cup (1..NSec + 1)}]
    /\ \A j \in CaseObjs : cases[j].case_id = j
    /\ suite = NewSuite
    /\ Fetchable([sec |-> secs, cs |-> cases, su |-> suite], SecObjs, CaseObjs)
    /\ nops = 0
    /\ handler = NoHandler
    /\ gen = NoGen
    /\ last = InitLast([sec |-> secs, cs |-> cases, su |-> suite])
    /\ InitAccounting

BuildAll == BuildSuite(SecObjs, CaseObjs)

NextBuild == BuildAll

SpecBuild == InitBuild /\ [][NextBuild]_vars

\* ------------------------------------------- a built suite and its handler
\* The suite is what build_suite returns for one of two sets of records: a
\* chain of sections named a, b, a, ... (plain), or the two reserved sections
\* of the default name and a chain (reserved).  The last case has no section,
\* the others sit in the first sections.
Layouts == {"plain", "reserved"}

LayoutSection(i, layout) ==
    IF layout = "plain" THEN BaseSection(i)
    ELSE IF i = 1 THEN NewSection(1, SuiteId, None, DefaultName)
    ELSE IF i = 2 THEN NewSection(2, SuiteId, 1, Tail(SectionsSuffix))
    ELSE NewSection(i, SuiteId, IF i = 3 THEN None ELSE i - 1, NameOf(i))

LayoutCase(j, layout) ==
    LET k == IF layout = "plain" THEN j + 1 ELSE j
    IN NewCase(j, SuiteId, IF j = NCase THEN None ELSE IF k <= NSec THEN k ELSE NSec)

InitHandlers ==
    /\ \E layout \in Layouts :
          LET h0 == [sec |-> [i \in SecObjs |-> LayoutSection(i, layout)],
                     cs |-> [j \in CaseObjs |-> LayoutCase(j, layout)],
                     su |-> NewSuite]
              b == build_suite(h0, SetToSeq(SecObjs), SetToSeq(CaseObjs))
          IN /\ secs = b.h.sec
             /\ cases = b.h.cs
             /\ suite = b.h.su
    /\ nops = 0
    /\ handler = NoHandler
    /\ gen = NoGen
    /\ last = InitLast([sec |-> secs, cs |-> cases, su |-> suite])
    /\ InitAccounting

\* keyword arguments a caller may pass to the factory
NameOverrides == {<<>>, <<"a">>}

Settings ==
    [mark_for_deletion : {AbsentFlag, Given(TRUE), Given(FALSE)},
     mark_for_deletion_section_name : {AbsentName} \cup {Given(n) : n \in NameOverrides},
     soft : {AbsentFlag, Given(TRUE), Given(FALSE)}]

\* position of the failing remote request within one operation (0: none fails)
FailAts == 0..3

Updated == [suite_id |-> SuiteId, moved |-> TRUE]

\* the choices of the environment that one operation can tell apart: a hard
\* deletion issues one request, a failed update has no response
Environment(kind) ==
    {e \in [failAt : FailAts, resp : Responses] :
        /\ kind \in {"delete_sections", "delete_cases"} => e.failAt <= 1
        /\ (kind # "Mark.delete_cases" \/ e.failAt # 0) => e.resp = Updated}

IsMark == handler.kind = "MarkForDeletionHandler"

IsHard == handler.kind = "DeletionHandler"

\* section_for_path walks every registered section's parent chain: it
\* returns only if every chain ends
ResolveReturns(h, hd) == hd.cache # <<>> \/ PathsTerminate(h)

CommitH(r, g, rec, cost) ==
    /\ secs' = r.h.sec
    /\ cases' = r.h.cs
    /\ suite' = r.h.su
    /\ handler' = r.hd
    /\ gen' = g
    /\ nops' = nops + cost
    /\ last' = rec
    /\ stats' = Account(stats, r.reqs)
    /\ issued' = Received(issued, r.reqs)
    /\ UNCHANGED <<fetch, probe>>

\* the cases given to or returned by a marking that issued its update
Marked(r, obj) ==
    IF r.err = NoError /\ \E i \in 1..Len(r.reqs) : r.reqs[i].call = "update_case"
    THEN last.marked \cup {obj} \cup {r.ret[i] : i \in 1..Len(r.ret)}
    ELSE last.marked

HRecord(op, obj, r) ==
    [InitLast(Heap) EXCEPT !.op = op, !.obj = obj, !.err = r.err, !.reqs = r.reqs, !.ret = r.ret,
                           !.hd = handler, !.marked = last.marked]

Factory(settings) ==
    /\ handler.kind = "none"
    /\ LET r == [h |-> Heap, hd |-> deletion_handler_factory(settings),
                 err |-> NoError, reqs |-> <<>>, ret |-> <<>>]
       IN CommitH(r, gen, [HRecord("deletion_handler_factory", None, r) EXCEPT !.cfg = settings], 0)

\* reading the property handler.to_be_deleted_sections
ReservedSections(failAt) ==
    /\ IsMark /\ ~Live(gen) /\ nops < MaxOps
    /\ ResolveReturns(Heap, handler)
    /\ Bind(to_be_deleted_sections(Heap, handler, failAt), LAMBDA r :
            CommitH(r, gen, HRecord("to_be_deleted_sections", None, r), 1))

MarkDeleteSection(s, failAt) ==
    /\ IsMark /\ ~Live(gen) /\ nops < MaxOps
    /\ ResolveReturns(Heap, handler)
    /\ Bind(Mark_delete_section(Heap, handler, s, failAt), LAMBDA r :
            CommitH(r, gen, HRecord("Mark.delete_section", s, r), 1))

MarkDeleteCase(c, failAt, resp) ==
    /\ IsMark /\ ~Live(gen) /\ nops < MaxOps
    /\ ResolveReturns(Heap, handler)
    /\ Bind(Mark_delete_case(Heap, handler, c, failAt, resp), LAMBDA r :
            CommitH(r, gen, [HRecord("Mark.delete_case", c, r) EXCEPT !.marked = Marked(r, c)], 1))

HardDeleteSection(s, remoteOk) == IsHard /\ ~Live(gen) /\ DeleteSection(s, handler.soft, remoteOk)

HardDeleteCase(c, remoteOk) == IsHard /\ ~Live(gen) /\ DeleteCase(c, handler.soft, remoteOk)

\* calling a bulk operation only creates the generator
StartBulk(kind) ==
    /\ ~Live(gen) /\ nops < MaxOps
    /\ \/ IsMark /\ kind \in {"Mark.delete_sections", "Mark.delete_cases"}
       \/ IsHard /\ kind \in {"delete_sections", "delete_cases"}
    /\ LET r == [h |-> Heap, hd |-> handler, err |-> NoError, reqs |-> <<>>, ret |-> <<>>]
       IN CommitH(r, NewGen(kind), HRecord("start", None, r), 0)

\* computing the item's path returns
PathReturns(h, kind, item) ==
    IF kind \in {"Mark.delete_sections", "delete_sections"} THEN PathTerminates(h, item)
    ELSE IF kind = "Mark.delete_cases"
    THEN h.cs[item].section = None \/ PathTerminates(h, h.cs[item].section)
    ELSE TRUE

BulkRound(h, hd, kind, item, failAt, resp) ==
    IF kind = "Mark.delete_sections" THEN Mark_delete_sections(h, hd, item, failAt)
    ELSE IF kind = "Mark.delete_cases" THEN Mark_delete_cases(h, hd, item, failAt, resp)
    ELSE IF kind = "delete_sections" THEN delete_sections(h, hd, item, failAt)
    ELSE delete_cases(h, hd, item, failAt)

BulkItems(kind) ==
    IF kind \in {"Mark.delete_sections", "delete_sections"} THEN DOMAIN secs ELSE DOMAIN cases

\* next(generator) when the list holds one more item: one round of the
\* loop, up to the yield or the exception
GenNext(item, failAt, resp) ==
    /\ Live(gen) /\ nops < MaxOps
    /\ Len(gen.items) < MaxLen
    /\ PathReturns(Heap, gen.kind, item)
    /\ ResolveReturns(Heap, handler)
    /\ Bind(BulkRound(Heap, handler, gen.kind, item, failAt, resp), LAMBDA r :
            CommitH(r,
                    [gen EXCEPT !.items = Append(@, item),
                                !.results = @ \o r.ret,
                                !.reqs = @ \o r.reqs,
                                !.err = r.err],
                    [HRecord("next", item, r) EXCEPT !.marked = Marked(r, item),
                                                     !.base = last.base], 1))

\* next(generator) at the end of the list: the generator returns
GenEnd ==
    /\ Live(gen)
    /\ LET r == [h |-> Heap, hd |-> handler, err |-> NoError, reqs |-> <<>>, ret |-> <<>>]
       IN CommitH(r, [gen EXCEPT !.done = TRUE],
                  [HRecord("end", None, r) EXCEPT !.base = last.base], 0)

NextHandlers ==
    \/ \E settings \in Settings : Factory(settings)
    \/ \E f \in FailAts : ReservedSections(f)
    \/ \E s \in DOMAIN secs, f \in FailAts : MarkDeleteSection(s, f)
    \/ \E c \in DOMAIN cases, e \in Environment("Mark.delete_cases") : MarkDeleteCase(c, e.failAt, e.resp)
    \/ \E s \in DOMAIN secs, ok \in BOOLEAN : HardDeleteSection(s, ok)
    \/ \E c \in DOMAIN cases, ok \in BOOLEAN : HardDeleteCase(c, ok)
    \/ \E kind \in {"Mark.delete_sections", "Mark.delete_cases", "delete_sections", "delete_cases"} :
          StartBulk(kind)
    \/ \E item \in BulkItems(gen.kind), e \in Environment(gen.kind) : GenNext(item, e.failAt, e.resp)
    \/ GenEnd

SpecHandlers == InitHandlers /\ [][NextHandlers]_vars

\* ------------------------------------------------------ paginated fetches
\* The service holds the records 1..n of a collection and answers a page
\* request with the records after the offset, at most limit of them and at
\* most cap, its own largest page.
Min(a, b) == IF a <= b THEN a ELSE b

Page(n, cap, limit, offset) ==
    LET len == Min(Min(limit, cap), n - offset)
    IN [i \in 1..(IF len > 0 THEN len ELSE 0) |-> offset + i]

\* the generator object get_projects / get_sections / get_cases returns: its
\* arguments, its local offset, the response its for loop runs over, the
\* position of the loop, and what it has requested, received and yielded
NoPager ==
    [kind |-> "none", limit |-> 0, given |-> 0, offset |-> 0, page |-> <<>>, pos |-> 0,
     started |-> FALSE, done |-> FALSE, reqs |-> <<>>, pages |-> <<>>, yielded |-> <<>>]

NewPager(kind, limit, offset) ==
    [NoPager EXCEPT !.kind = kind, !.limit = limit, !.given = offset, !.offset = offset]

\* variant: the next page is requested one item before the page is used up
InsidePage_Prefetch(g) == g.started /\ g.pos + 1 < Len(g.page)

\* the generator is suspended inside a page
InsidePage(g) == g.started /\ g.pos < Len(g.page)

\* variant: the while loop ends on an empty page only
LoopBreaks_OnEmptyPage(g) == g.started /\ Len(g.page) = 0

\* the while loop ends: the page the for loop has finished was short
LoopBreaks(g) == g.started /\ Len(g.page) < g.limit

\* next() sends a request
Requests(g) == ~g.done /\ ~InsidePage(g) /\ ~LoopBreaks(g)

\* next() returns: with limit 0 every page is empty and none is short, the
\* while loop requests for ever
PagerReturns(g) == Requests(g) => g.limit > 0

PageRequest(g, offset) == [call |-> g.kind, limit |-> g.limit, offset |-> offset]

\* next(generator): run to the next yield or to the end of the while loop.
\* ret is the record yielded, or nothing when the generator returns
\* (an empty page is short for every limit > 0, so one call sends at most
\* one request)
Pager_next(g, n, cap) ==
    IF g.done THEN [g |-> g, reqs |-> <<>>, ret |-> <<>>]
    ELSE IF InsidePage(g)
    THEN [g |-> [g EXCEPT !.pos = @ + 1, !.yielded = Append(@, g.page[g.pos + 1])],
          reqs |-> <<>>, ret |-> <<g.page[g.pos + 1]>>]
    ELSE Bind(IF g.started THEN g.offset + Len(g.page) ELSE g.offset, LAMBDA offset :
         IF LoopBreaks(g)
         THEN [g |-> [g EXCEPT !.offset = offset, !.done = TRUE], reqs |-> <<>>, ret |-> <<>>]
         ELSE Bind(Page(n, cap, g.limit, offset), LAMBDA response :
              Bind([g EXCEPT !.offset = offset, !.page = response, !.started = TRUE,
                             !.reqs = Append(@, PageRequest(g, offset)),
                             !.pages = Append(@, response)], LAMBDA g1 :
              IF Len(response) > 0
              THEN [g |-> [g1 EXCEPT !.pos = 1, !.yielded = Append(@, response[1])],
                    reqs |-> <<PageRequest(g, offset)>>, ret |-> <<response[1]>>]
              ELSE [g |-> [g1 EXCEPT !.pos = 0, !.done = TRUE],
                    reqs |-> <<PageRequest(g, offset)>>, ret |-> <<>>])))

\* ------------------------------------------------- builder and its service
Paginated == {"get_projects", "get_sections", "get_cases"}

\* the operations of the builder that send one request
Single ==
    {"get_project", "get_suite", "get_suites", "get_section", "add_section", "get_case",
     "add_case", "update_case", "get_case_fields", "get_case_types"}

Limits == 0..MaxLimit

Offsets == 0..MaxOffset

\* the largest page of the service: at least every limit asked for, or one
Caps == {1, MaxLimit + DefaultLimit}

\* the collections of the service: as many projects and sections as the
\* pool has sections, and the cases of the pool that sit in them
Collections(n) == [get_projects |-> n, get_sections |-> n, get_cases |-> Min(n, NCase)]

InitFetch ==
    /\ secs = [i \in SecObjs |-> BaseSection(i)]
    /\ cases = [j \in CaseObjs |-> BaseCase(j)]
    /\ suite = NewSuite
    /\ nops = 0
    /\ handler = NoHandler
    /\ gen = NoGen
    /\ last = InitLast([sec |-> secs, cs |-> cases, su |-> suite])
    /\ stats = NewStats
    /\ issued = NewStats
    /\ probe = NoProbe
    /\ \E n \in 0..NSec, cap \in Caps :
          fetch = [pc |-> "idle", n |-> Collections(n), cap |-> cap,
                   pagers |-> [k \in Paginated |-> NoPager], log |-> <<>>, from |-> 0]

\* variant: a paginated operation is counted for its first page only
Counted_FirstPageOnly(st, reqs) ==
    IF reqs = <<>> \/ (reqs[1].call \in Paginated /\ st[reqs[1].call] > 0) THEN st
    ELSE Inc(st, reqs[1].call)

\* self.stats.<operation> += 1 in front of the request of a builder
\* operation (one step of the builder sends at most one request)
Counted(st, reqs) == IF reqs = <<>> THEN st ELSE Inc(st, reqs[1].call)

Sent(reqs) ==
    /\ stats' = Counted(stats, reqs)
    /\ issued' = Received(issued, reqs)

\* get_project, get_suite, ...: self.stats.<operation> += 1, then the request
SingleFetch(op) ==
    /\ fetch.pc = "idle" /\ nops < MaxOps
    /\ nops' = nops + 1
    /\ Sent(<<[call |-> op]>>)
    /\ fetch' = [fetch EXCEPT !.log = Append(@, [call |-> op])]
    /\ UNCHANGED <<secs, cases, suite, last, handler, gen, probe>>

\* calling a paginated operation only creates the generator
StartFetch(kind, limit, offset) ==
    /\ fetch.pc = "idle" /\ nops < MaxOps
    /\ fetch.pagers[kind].kind = "none"
    /\ nops' = nops + 1
    /\ fetch' = [fetch EXCEPT !.pagers[kind] = NewPager(kind, limit, offset)]
    /\ UNCHANGED <<secs, cases, suite, last, handler, gen, stats, issued, probe>>

\* the caller asks the generator for its next item
FetchNext(kind) ==
    /\ fetch.pc = "idle"
    /\ fetch.pagers[kind].kind # "none" /\ ~fetch.pagers[kind].done
    /\ PagerReturns(fetch.pagers[kind])
    /\ Bind(Pager_next(fetch.pagers[kind], fetch.n[kind], fetch.cap), LAMBDA r :
          /\ fetch' = [fetch EXCEPT !.pagers[kind] = r.g, !.log = @ \o r.reqs]
          /\ Sent(r.reqs))
    /\ UNCHANGED <<secs, cases, suite, last, nops, handler, gen, probe>>

\* stats.reset()
Reset ==
    /\ fetch.pc = "idle" /\ nops < MaxOps
    /\ nops' = nops + 1
    /\ stats' = Stats_reset(stats)
    /\ issued' = NewStats
    /\ UNCHANGED <<secs, cases, suite, last, handler, gen, fetch, probe>>

\* ---------------------------------------------- build_suite, step by step
\* build_suite between the points where it resumes a generator: the suite
\* request and the creation of both generators, one item of the sections
\* comprehension, one item of the cases comprehension, and the linking.
BuildThen_LinkBeforeCases(pc) ==
    CASE pc = "sections" -> "link"
      [] pc = "link" -> "cases"
      [] pc = "cases" -> "built"

\* the order of the statements of build_suite
BuildThen(pc) ==
    CASE pc = "sections" -> "cases"
      [] pc = "cases" -> "link"
      [] pc = "link" -> "built"

\* suite = self.get_suite(...); sections = self.get_sections(...);
\* cases = self.get_cases(...)
BuildStart ==
    /\ fetch.pc = "idle" /\ nops < MaxOps
    /\ Fresh(Heap)
    /\ nops' = nops + 1
    /\ Sent(<<[call |-> "get_suite"]>>)
    /\ fetch' = [fetch EXCEPT !.pc = "sections",
                              !.from = Len(fetch.log),
                              !.log = Append(@, [call |-> "get_suite"]),
                              !.pagers["get_sections"] = NewPager("get_sections", DefaultLimit, 0),
                              !.pagers["get_cases"] = NewPager("get_cases", DefaultLimit, 0)]
    /\ UNCHANGED <<secs, cases, suite, last, handler, gen, probe>>

\* one item of {section.section_id: section for section in sections}, or of
\* the comprehension over cases
BuildDrain(kind) ==
    /\ fetch.pc = (IF kind = "get_sections" THEN "sections" ELSE "cases")
    /\ Bind(Pager_next(fetch.pagers[kind], fetch.n[kind], fetch.cap), LAMBDA r :
          /\ fetch' = [fetch EXCEPT !.pagers[kind] = r.g, !.log = @ \o r.reqs,
                                    !.pc = IF r.ret = <<>> THEN BuildThen(@) ELSE @]
          /\ Sent(r.reqs))
    /\ UNCHANGED <<secs, cases, suite, last, nops, handler, gen, probe>>

\* suite.sections.update(...) up to return suite
BuildLink ==
    /\ fetch.pc = "link"
    /\ Bind(build_suite(Heap, fetch.pagers["get_sections"].yielded,
                        fetch.pagers["get_cases"].yielded), LAMBDA r :
          /\ secs' = r.h.sec
          /\ cases' = r.h.cs
          /\ suite' = r.h.su
          /\ last' = [OpRecord("build_suite", None, None, r) EXCEPT
                         !.fs = fetch.pagers["get_sections"].yielded,
                         !.fc = fetch.pagers["get_cases"].yielded])
    /\ fetch' = [fetch EXCEPT !.pc = BuildThen(@)]
    /\ UNCHANGED <<nops, handler, gen, stats, issued, probe>>

\* build_suite has returned the suite: a deletion handler can be made for it
SuiteBuilt == fetch.pc = "built"

NextFetch ==
    \/ \E op \in Single : SingleFetch(op)
    \/ \E kind \in Paginated, limit \in Limits, offset \in Offsets : StartFetch(kind, limit, offset)
    \/ \E kind \in Paginated : FetchNext(kind)
    \/ Reset
    \/ BuildStart
    \/ \E kind \in {"get_sections", "get_cases"} : BuildDrain(kind)
    \/ BuildLink
    \/ \E settings \in Settings : SuiteBuilt /\ Factory(settings)
    \/ \E f \in FailAts : SuiteBuilt /\ ReservedSections(f)
    \/ \E s \in DOMAIN secs, f \in FailAts : SuiteBuilt /\ MarkDeleteSection(s, f)
    \/ \E c \in DOMAIN cases, e \in Environment("Mark.delete_cases") :
          SuiteBuilt /\ MarkDeleteCase(c, e.failAt, e.resp)
    \/ \E s \in DOMAIN secs, ok \in BOOLEAN : SuiteBuilt /\ HardDeleteSection(s, ok)
    \/ \E c \in DOMAIN cases, ok \in BOOLEAN : SuiteBuilt /\ HardDeleteCase(c, ok)

SpecFetch == InitFetch /\ [][NextFetch]_vars

\* ------------------------------------------------ TestRailCase as a record
\* A wire record is a mapping from keys to values; a key is a str, written
\* as the sequence of its parts ("custom_" is one part).  Times are counted
\* in hours.  The local time zone is UTC, or a zone whose daylight saving
\* time ends at DstEnd: until then the wall clock is one hour ahead.
W(name) == <<name>>

CustomPrefix == <<"custom_">>

Custom(name) == CustomPrefix \o <<name>>

\* the keys to_dict writes
DeclaredKeys ==
    {W("id"), W("suite_id"), W("created_by"), W("created_on"), W("priority_id"),
     W("template_id"), W("title"), W("type_id"), W("updated_by"), W("updated_on"),
     W("is_deleted"), W("display_order"), W("estimate"), W("estimate_forecast"),
     W("section_id"), W("milestone_id"), W("refs")}

\* the keys from_data reads with data.get(key, default)
OptionalKeys == {W("is_deleted"), W("display_order")}

Zones == {"utc", "dst"}

DstEnd == 2

Times == 0..MaxTime

utcoffset(tz, ts) == IF tz = "dst" /\ ts < DstEnd THEN 1 ELSE 0

\* datetime.fromtimestamp(ts): the naive local time; fold marks the second
\* occurrence of a wall-clock time
fromtimestamp(tz, ts) ==
    [wall |-> ts + utcoffset(tz, ts),
     fold |-> IF \E t \in (0 - 1)..(ts - 1) : t + utcoffset(tz, t) = ts + utcoffset(tz, ts)
              THEN 1 ELSE 0]

\* datetime.timetuple(): tm_isdst is -1 for a naive datetime, fold is not
\* part of a struct_time
timetuple(dt) == [wall |-> dt.wall, isdst |-> 0 - 1]

\* time.mktime(tm) with tm_isdst = -1: the C library decides which of the two
\* occurrences of an ambiguous wall-clock time is meant
mktime(tz, guess, tm) ==
    LET ts == {t \in (0 - 1)..(MaxTime + 1) : t + utcoffset(tz, t) = tm.wall}
    IN IF ts = {} THEN tm.wall
       ELSE IF guess = "dst" THEN CHOOSE t \in ts : \A u \in ts : t <= u
       ELSE CHOOSE t \in ts : \A u \in ts : u <= t

\* bool(x), int(b)
Bool(x) == x # 0

IntOf(b) == IF b THEN 1 ELSE 0

\* data.get(key, default)
Get(data, key, default) == IF key \in DOMAIN data THEN data[key] ELSE default

\* TestRailCase.from_data
TestRailCase_from_data(tz, data) ==
    [case_id |-> data[W("id")],
     suite_id |-> data[W("suite_id")],
     created_by |-> data[W("created_by")],
     created_on |-> fromtimestamp(tz, data[W("created_on")]),
     priority_id |-> data[W("priority_id")],
     template_id |-> data[W("template_id")],
     title |-> data[W("title")],
     type_id |-> data[W("type_id")],
     updated_by |-> data[W("updated_by")],
     updated_on |-> fromtimestamp(tz, data[W("updated_on")]),
     is_deleted |-> Bool(Get(data, W("is_deleted"), 0)),
     display_order |-> Get(data, W("display_order"), None),
     custom_fields |-> [k \in {k \in DOMAIN data : Startswith(k, CustomPrefix)} |-> data[k]],
     estimate |-> data[W("estimate")],
     estimate_forecast |-> data[W("estimate_forecast")],
     section_id |-> data[W("section_id")],
     milestone_id |-> data[W("milestone_id")],
     refs |-> data[W("refs")],
     section |-> None,
     suite |-> None]

\* result = {'id': self.case_id, ...}: the declared keys
DeclaredPart(tz, guess, self) ==
    [k \in DeclaredKeys |->
        CASE k = W("id") -> self.case_id
          [] k = W("suite_id") -> self.suite_id
          [] k = W("created_by") -> self.created_by
          [] k = W("created_on") -> mktime(tz, guess, timetuple(self.created_on))
          [] k = W("priority_id") -> self.priority_id
          [] k = W("template_id") -> self.template_id
          [] k = W("title") -> self.title
          [] k = W("type_id") -> self.type_id
          [] k = W("updated_by") -> self.updated_by
          [] k = W("updated_on") -> mktime(tz, guess, timetuple(self.updated_on))
          [] k = W("is_deleted") -> IntOf(self.is_deleted)
          [] k = W("display_order") -> self.display_order
          [] k = W("estimate") -> self.estimate
          [] k = W("estimate_forecast") -> self.estimate_forecast
          [] k = W("section_id") -> self.section_id
          [] k = W("milestone_id") -> self.milestone_id
          [] k = W("refs") -> self.refs]

\* TestRailCase.to_dict: the declared keys, then result.update(custom_fields)
TestRailCase_to_dict(tz, guess, self) ==
    LET result == DeclaredPart(tz, guess, self)
    IN [k \in DOMAIN result \cup DOMAIN self.custom_fields |->
           IF k \in DOMAIN self.custom_fields THEN self.custom_fields[k] ELSE result[k]]

\* the attributes found without __getattr__: the fields of the dataclass
DeclaredAttributes ==
    {W("case_id"), W("suite_id"), W("created_by"), W("created_on"), W("priority_id"),
     W("template_id"), W("title"), W("type_id"), W("updated_by"), W("updated_on"),
     W("is_deleted"), W("custom_fields"), W("display_order"), W("estimate"),
     W("estimate_forecast"), W("section_id"), W("milestone_id"), W("refs"), W("section"),
     W("suite")}

\* variant: an unknown name gives None instead of an exception
TestRailCase_getattr_NoneWhenMissing(self, attr) ==
    IF Len(attr) = 0 THEN [err |-> "ValueError", named |-> <<>>, ret |-> <<>>]
    ELSE LET attr_name == CustomPrefix \o attr IN
         IF attr_name \notin DOMAIN self.custom_fields
         THEN [err |-> "none", named |-> <<>>, ret |-> <<None>>]
         ELSE [err |-> "none", named |-> <<>>, ret |-> <<self.custom_fields[attr_name]>>]

\* TestRailCase.__getattr__: called for a name that is no declared attribute
TestRailCase_getattr(self, attr) ==
    IF Len(attr) = 0 THEN [err |-> "ValueError", named |-> <<>>, ret |-> <<>>]
    ELSE LET attr_name == CustomPrefix \o attr IN
         IF attr_name \notin DOMAIN self.custom_fields
         THEN [err |-> "AttributeError", named |-> attr_name, ret |-> <<>>]
         ELSE [err |-> "none", named |-> <<>>, ret |-> <<self.custom_fields[attr_name]>>]

\* wire records of one case: any two timestamps, is_deleted 0 or 1, any of
\* two custom fields, and with or without the optional keys
CustomKeys == {Custom("uuid"), Custom("steps")}

WireRecord(created, updated, deleted, customs, absent) ==
    [k \in (DeclaredKeys \ absent) \cup customs |->
        CASE k = W("created_on") -> created
          [] k = W("updated_on") -> updated
          [] k = W("is_deleted") -> deleted
          [] k = W("title") -> "title"
          [] k \in customs -> IF k = Custom("uuid") THEN "u-1" ELSE "step"
          [] k \in {W("estimate"), W("estimate_forecast"), W("milestone_id"), W("refs")} -> None
          [] OTHER -> 1]

\* names a caller may ask a case for
AttrNames == {<<>>, <<"uuid">>, <<"steps">>, <<"custom_", "uuid">>, <<"id">>}

NoCase == [case_id |-> None]

InitCase ==
    /\ secs = [i \in SecObjs |-> BaseSection(i)]
    /\ cases = [j \in CaseObjs |-> BaseCase(j)]
    /\ suite = NewSuite
    /\ nops = 0
    /\ handler = NoHandler
    /\ gen = NoGen
    /\ last = InitLast([sec |-> secs, cs |-> cases, su |-> suite])
    /\ stats = NewStats
    /\ issued = NewStats
    /\ fetch = NoFetch
    /\ \E created \in Times, updated \in Times, deleted \in {0, 1}, customs \in SUBSET CustomKeys,
          absent \in SUBSET OptionalKeys, tz \in Zones, guess \in {"dst", "std"} :
          /\ tz = "utc" => guess = "std"
          /\ probe = [op |-> "record", tz |-> tz, guess |-> guess,
                      record |-> WireRecord(created, updated, deleted, customs, absent),
                      case |-> NoCase, out |-> <<>>, attr |-> <<>>,
                      res |-> [err |-> "none", named |-> <<>>, ret |-> <<>>]]

\* case = TestRailCase.from_data(record)
FromData ==
    /\ probe.op = "record"
    /\ probe' = [probe EXCEPT !.op = "case", !.case = TestRailCase_from_data(probe.tz, probe.record)]
    /\ UNCHANGED <<secs, cases, suite, last, nops, handler, gen, stats, issued, fetch>>

\* case.to_dict()
ToDict ==
    /\ probe.op \in {"case", "getattr"}
    /\ probe' = [probe EXCEPT !.op = "dict",
                              !.out = TestRailCase_to_dict(probe.tz, probe.guess, probe.case)]
    /\ UNCHANGED <<secs, cases, suite, last, nops, handler, gen, stats, issued, fetch>>

\* getattr(case, attr) for a name that is no declared attribute
GetAttr(attr) ==
    /\ probe.op = "case"
    /\ attr \notin DeclaredAttributes
    /\ probe' = [probe EXCEPT !.op = "getattr", !.attr = attr,
                              !.res = TestRailCase_getattr(probe.case, attr)]
    /\ UNCHANGED <<secs, cases, suite, last, nops, handler, gen, stats, issued, fetch>>

NextCase ==
    \/ FromData
    \/ ToDict
    \/ \E attr \in AttrNames : GetAttr(attr)

SpecCase == InitCase /\ [][NextCase]_vars

\* ------------------------------------------- the stats object on its own
\* A caller holds the stats object, assigns its counters (stats.get_case = 2)
\* and resets it; total is a property read from the current counters.
InitStats ==
    /\ secs = [i \in SecObjs |-> BaseSection(i)]
    /\ cases = [j \in CaseObjs |-> BaseCase(j)]
    /\ suite = NewSuite
    /\ nops = 0
    /\ handler = NoHandler
    /\ gen = NoGen
    /\ last = InitLast([sec |-> secs, cs |-> cases, su |-> suite])
    /\ InitAccounting

\* setattr(stats, name, value)
SetCounter(name, value) ==
    /\ nops < MaxOps
    /\ nops' = nops + 1
    /\ stats' = [stats EXCEPT ![name] = value]
    /\ UNCHANGED <<secs, cases, suite, last, handler, gen, issued, fetch, probe>>

NextStats ==
    \/ \E name \in Counters, value \in 0..MaxCount : SetCounter(name, value)
    \/ Reset

SpecStats == InitStats /\ [][NextStats]_vars

\* ------------------------------------ a suite with a look-alike root section
\* The suite is what build_suite returns for a root section whose name is the
\* default reserved name followed by one more character, a chain of sections
\* below it and one more root section; the cases sit in the chain, the last
\* one has no section.
LookalikeName == DefaultName \o <<"2">>

LookalikeSection(i) ==
    IF i = 1 THEN NewSection(1, SuiteId, None, LookalikeName)
    ELSE IF i = NSec THEN NewSection(i, SuiteId, None, NameOf(i))
    ELSE NewSection(i, SuiteId, i - 1, NameOf(i))

LookalikeCase(j) == NewCase(j, SuiteId, IF j = NCase THEN None ELSE IF j < NSec THEN j ELSE NSec)

InitLookalike ==
    /\ LET h0 == [sec |-> [i \in SecObjs |-> LookalikeSection(i)],
                  cs |-> [j \in CaseObjs |-> LookalikeCase(j)],
                  su |-> NewSuite]
           b == build_suite(h0, SetToSeq(SecObjs), SetToSeq(CaseObjs))
       IN /\ secs = b.h.sec
          /\ cases = b.h.cs
          /\ suite = b.h.su
    /\ nops = 0
    /\ handler = NoHandler
    /\ gen = NoGen
    /\ last = InitLast([sec |-> secs, cs |-> cases, su |-> suite])
    /\ InitAccounting

SpecLookalike == InitLookalike /\ [][NextHandlers]_vars

\* ------------------------------------ create_new_section_for_path by itself
\* A caller holds a built suite and asks the builder for sections at paths
\* of up to three levels, some below sections the suite has, some not.
CreatePaths ==
    {<<>>, <<"c">>, <<"a", "/", "c">>, <<"c", "/", "d">>, <<"a", "/", "b", "/", "c">>,
     <<"c", "/", "d", "/", "e">>}

InitCreate == InitHandlers

\* builder.create_new_section_for_path(suite, path)
CreateSection(path, remoteOk) ==
    /\ nops < MaxOps
    /\ PathsTerminate(Heap)
    /\ Bind(create_new_section_for_path(Heap, path, remoteOk), LAMBDA r :
          Commit(r.h, [OpRecord("create_new_section_for_path", None, path, r) EXCEPT
                          !.ok = remoteOk, !.reqs = r.reqs, !.ret = <<r.ret>>]))

NextCreate == \E path \in CreatePaths, ok \in BOOLEAN : CreateSection(path, ok)

SpecCreate == InitCreate /\ [][NextCreate]_vars

\* ------------------------------------- successful link, unlink, move only
\* A caller links, unlinks and moves the instances of the base pool; a call
\* that raises is not part of the run.
InitLinks ==
    /\ secs = [i \in SecObjs |-> BaseSection(i)]
    /\ cases = [j \in CaseObjs |-> BaseCase(j)]
    /\ suite = NewSuite
    /\ nops = 0
    /\ handler = NoHandler
    /\ gen = NoGen
    /\ last = InitLast([sec |-> secs, cs |-> cases, su |-> suite])
    /\ InitAccounting

Succeeds(op, obj, arg, r) ==
    /\ nops < MaxCalls
    /\ r.err = NoError
    /\ Commit(r.h, OpRecord(op, obj, arg, r))

LinkedSection(s, parent) == Succeeds("Section.link", s, parent, Section_link(Heap, s, parent))

LinkedCase(c, section) == Succeeds("Case.link", c, section, Case_link(Heap, c, section))

UnlinkedTheSection(s) ==
    Succeeds("Section.unlink", s, None, [h |-> Section_unlink(Heap, s), err |-> NoError])

UnlinkedTheCase(c) ==
    Succeeds("Case.unlink", c, None, [h |-> Case_unlink(Heap, c), err |-> NoError])

MovedSection(s, new_parent) ==
    Succeeds("Section.move", s, new_parent, Section_move(Heap, s, new_parent))

NextLinks ==
    \/ \E s \in SecObjs, p \in SecObjs \cup {None} : LinkedSection(s, p)
    \/ \E c \in CaseObjs, s \in SecObjs \cup {None} : LinkedCase(c, s)
    \/ \E s \in SecObjs : UnlinkedTheSection(s)
    \/ \E c \in CaseObjs : UnlinkedTheCase(c)
    \/ \E s \in SecObjs, p \in SecObjs \cup {None} : MovedSection(s, p)

SpecLinks == InitLinks /\ [][NextLinks]_vars

\* ================================================================ claims
Pre == last.pre

SecId(h, s) == h.sec[s].section_id

CaseId(h, c) == h.cs[c].case_id

\* s is linked in the suite: it has the suite back-reference and is the
\* instance registered under its id
LinkedInSuite(h, s) == h.sec[s].suite # None /\ DictGet(h.su.sections, SecId(h, s)) = s

\* linked children: the forward mapping and the back-reference agree
ChildSections(h, p) == {d \in SecObjs : h.sec[d].parent = p /\ DictGet(h.sec[p].sections, SecId(h, d)) = d}

ChildCases(h, p) == {c \in CaseObjs : h.cs[c].section = p /\ DictGet(h.sec[p].cases, CaseId(h, c)) = c}

RECURSIVE Reach(_, _, _)
Reach(h, S, fuel) ==
    LET T == S \cup UNION {ChildSections(h, p) : p \in S}
    IN IF T = S \/ fuel = 0 THEN S ELSE Reach(h, T, fuel - 1)

\* s together with its descendant sections
Subtree(h, s) == Reach(h, {s}, NSec)

\* every mapping entry and every back-reference of the graph agree
GraphConsistent(h) ==
    /\ \A s \in SecObjs :
          /\ h.sec[s].suite # None <=> DictGet(h.su.sections, SecId(h, s)) = s
          /\ h.sec[s].parent # None => s \in ChildSections(h, h.sec[s].parent)
          /\ \A i \in 1..Len(h.sec[s].sections) :
                LET e == h.sec[s].sections[i] IN e.k = SecId(h, e.v) /\ h.sec[e.v].parent = s
          /\ \A i \in 1..Len(h.sec[s].cases) :
                LET e == h.sec[s].cases[i] IN e.k = CaseId(h, e.v) /\ h.cs[e.v].section = s
    /\ \A c \in CaseObjs :
          /\ h.cs[c].suite # None <=> DictGet(h.su.cases, CaseId(h, c)) = c
          /\ h.cs[c].section # None => c \in ChildCases(h, h.cs[c].section)

\* C1: a link whose foreign keys do not match never succeeds: Section.link
\* and Case.link raise ValueError when the suite ids differ, or when a
\* parent / section is given and its id differs from the child's parent_id /
\* section_id; the error carries the child's value and the expected value.
C1_MismatchedLinkRaises ==
    /\ last.op = "Section.link" =>
         LET me == Pre.sec[last.obj]
             badSuite == me.suite_id # Pre.su.suite_id
             badParent == last.arg # None /\ me.parent_id # Pre.sec[last.arg].section_id
         IN (badSuite \/ badParent) =>
              /\ last.err.kind = "ValueError"
              /\ last.err.child # last.err.expected
              /\ \/ badSuite /\ last.err.child = me.suite_id /\ last.err.expected = Pre.su.suite_id
                 \/ badParent /\ last.err.child = me.parent_id
                              /\ last.err.expected = Pre.sec[last.arg].section_id
    /\ last.op = "Case.link" =>
         LET me == Pre.cs[last.obj]
             badSuite == me.suite_id # Pre.su.suite_id
             badSection == last.arg # None /\ me.section_id # Pre.sec[last.arg].section_id
         IN (badSuite \/ badSection) =>
              /\ last.err.kind = "ValueError"
              /\ last.err.child # last.err.expected
              /\ \/ badSuite /\ last.err.child = me.suite_id /\ last.err.expected = Pre.su.suite_id
                 \/ badSection /\ last.err.child = me.section_id
                               /\ last.err.expected = Pre.sec[last.arg].section_id

C1_Witness ==
    /\ last.op = "Case.link"
    /\ last.arg # None
    /\ Pre.cs[last.obj].suite_id = Pre.su.suite_id
    /\ Pre.cs[last.obj].section_id # Pre.sec[last.arg].section_id
    /\ last.err.kind = "ValueError"

\* C2: linking is all-or-nothing: when Section.link or Case.link raises on a
\* foreign-key mismatch, every mapping and back-reference is as before the call.
C2_FailedLinkMutatesNothing ==
    (last.op \in {"Section.link", "Case.link"} /\ last.err.kind = "ValueError") => Heap = Pre

\* C3: linking is bidirectional: after a successful Section.link(suite, parent)
\* suite.sections[section_id] is the section, section.suite is the suite,
\* section.parent is the given parent and, for a parent that is not None,
\* parent.sections[section_id] is the section; likewise for Case.link, which
\* also succeeds with section None and leaves case.section None.
C3_LinkIsBidirectional ==
    /\ (last.op = "Section.link" /\ last.err = NoError) =>
         LET s == last.obj IN
         /\ DictGet(suite.sections, secs[s].section_id) = s
         /\ secs[s].suite = TheSuite
         /\ secs[s].parent = last.arg
         /\ last.arg # None => DictGet(secs[last.arg].sections, secs[s].section_id) = s
    /\ (last.op = "Case.link" /\ last.err = NoError) =>
         LET c == last.obj IN
         /\ DictGet(suite.cases, cases[c].case_id) = c
         /\ cases[c].suite = TheSuite
         /\ cases[c].section = last.arg
         /\ last.arg # None => DictGet(secs[last.arg].cases, cases[c].case_id) = c
    /\ (last.op = "Case.link" /\ last.arg = None /\ Pre.cs[last.obj].suite_id = Pre.su.suite_id) =>
         last.err = NoError

C3_Witness ==
    /\ last.op = "Section.link"
    /\ last.err = NoError
    /\ last.arg # None
    /\ DictGet(secs[last.arg].sections, secs[last.obj].section_id) = last.obj

\* C4: unlinking a section cascades: after Section.unlink() on a section
\* linked in the suite, no id of the section or of a descendant section is a
\* key of suite.sections, no id of a case under any of them is a key of
\* suite.cases, and the section's own sections and cases mappings are empty.
C4_UnlinkCascades ==
    (last.op = "Section.unlink" /\ LinkedInSuite(Pre, last.obj)) =>
        /\ \A d \in Subtree(Pre, last.obj) :
              /\ ~DictHas(suite.sections, SecId(Pre, d))
              /\ \A c \in ChildCases(Pre, d) : ~DictHas(suite.cases, CaseId(Pre, c))
        /\ secs[last.obj].sections = <<>>
        /\ secs[last.obj].cases = <<>>

C4_Witness ==
    /\ last.op = "Section.unlink"
    /\ LinkedInSuite(Pre, last.obj)
    /\ \E d \in ChildSections(Pre, last.obj) :
          /\ ChildSections(Pre, d) # {}
          /\ ChildCases(Pre, d) # {}
    /\ suite.sections = <<>>

\* --- link / unlink round trip
Base == last.base

\* the instance was unlinked before the link: no suite and no parent / section
UnlinkedSection(h, s) == h.sec[s].suite = None /\ h.sec[s].parent = None

UnlinkedCase(h, c) == h.cs[c].suite = None /\ h.cs[c].section = None

\* last is the unlink that directly follows a successful link of the same
\* unlinked section, whose id was in none of the target mappings
SectionRoundTrip ==
    /\ last.op = "Section.unlink"
    /\ last.after_link
    /\ UnlinkedSection(Base, last.obj)
    /\ ~DictHas(Base.su.sections, SecId(Base, last.obj))
    /\ last.arg # None => ~DictHas(Base.sec[last.arg].sections, SecId(Base, last.obj))

CaseRoundTrip ==
    /\ last.op = "Case.unlink"
    /\ last.after_link
    /\ UnlinkedCase(Base, last.obj)
    /\ ~DictHas(Base.su.cases, CaseId(Base, last.obj))
    /\ last.arg # None => ~DictHas(Base.sec[last.arg].cases, CaseId(Base, last.obj))

SectionRestored ==
    /\ DictItems(suite.sections) = DictItems(Base.su.sections)
    /\ last.arg # None => DictItems(secs[last.arg].sections) = DictItems(Base.sec[last.arg].sections)
    /\ secs[last.obj].suite = None
    /\ secs[last.obj].parent = None

CaseRestored ==
    /\ DictItems(suite.cases) = DictItems(Base.su.cases)
    /\ last.arg # None => DictItems(secs[last.arg].cases) = DictItems(Base.sec[last.arg].cases)
    /\ cases[last.obj].suite = None
    /\ cases[last.obj].section = None

MovePost(s, new_parent) ==
    /\ last.err = NoError
    /\ DictGet(suite.sections, secs[s].section_id) = s
    /\ secs[s].suite = Pre.sec[s].suite
    /\ secs[s].parent = new_parent
    /\ secs[s].parent_id = (IF new_parent # None THEN secs[new_parent].section_id ELSE None)
    /\ new_parent # None => DictGet(secs[new_parent].sections, secs[s].section_id) = s

\* C6 as stated: Section.move(new_parent) on a section linked in a suite keeps
\* it registered in the suite with the same suite back-reference, sets parent
\* and parent_id to the new parent, registers it in new_parent.sections, and
\* leaves it absent from the old parent's sections mapping.  (Stated for the
\* moves that start from a graph whose mappings and back-references agree.)
C6_MoveAsStated ==
    (last.op = "Section.move" /\ LinkedInSuite(Pre, last.obj) /\ GraphConsistent(Pre)) =>
        /\ MovePost(last.obj, last.arg)
        /\ Pre.sec[last.obj].parent # None =>
              ~DictHas(secs[Pre.sec[last.obj].parent].sections, secs[last.obj].section_id)

\* C6 (amended): as stated, the section being absent from the old parent's
\* sections mapping whenever the old parent is not new_parent.
C6_Move ==
    (last.op = "Section.move" /\ Pre.sec[last.obj].suite # None) =>
        /\ MovePost(last.obj, last.arg)
        /\ (Pre.sec[last.obj].parent # None /\ Pre.sec[last.obj].parent # last.arg) =>
              ~DictHas(secs[Pre.sec[last.obj].parent].sections, secs[last.obj].section_id)

C6_Witness ==
    /\ last.op = "Section.move"
    /\ LinkedInSuite(Pre, last.obj)
    /\ last.arg # None
    /\ Pre.sec[last.obj].parent \notin {None, last.arg}
    /\ last.obj \in ChildSections(Pre, Pre.sec[last.obj].parent)
    /\ last.obj \in ChildSections(Heap, last.arg)

\* --- path
\* C7: path is derived from the current parent chain: the path of a section
\* without parent is its name, the path of a section with a parent is
\* parent.path + "/" + name, the path of a case linked to a section is that
\* section's path; after a link or move the path follows the new parent.
C7_PathFollowsParentChain ==
    /\ \A s \in SecObjs : PathTerminates(Heap, s) =>
          IF secs[s].parent = None
          THEN Section_path(Heap, s) = secs[s].name
          ELSE Section_path(Heap, s) =
                  Section_path(Heap, secs[s].parent) \o <<Slash>> \o secs[s].name
    /\ \A c \in CaseObjs : cases[c].section # None =>
          Case_path(Heap, c) = Section_path(Heap, cases[c].section)
    /\ (/\ last.op \in {"Section.link", "Section.move"}
        /\ last.err = NoError
        /\ PathTerminates(Heap, last.obj)) =>
          Section_path(Heap, last.obj) =
             (IF last.arg = None THEN <<>> ELSE Section_path(Heap, last.arg) \o <<Slash>>)
                \o secs[last.obj].name

C7_Witness ==
    /\ last.op = "Section.move"
    /\ last.err = NoError
    /\ last.arg # None
    /\ PathTerminates(Pre, last.obj)
    /\ PathTerminates(Heap, last.obj)
    /\ Len(Section_path(Pre, last.obj)) = 5
    /\ Len(Section_path(Heap, last.obj)) = 3
    /\ \E c \in CaseObjs : cases[c].section # None /\ Len(Case_path(Heap, c)) = 3

\* --- build_suite
FetchedSecs == {last.fs[i] : i \in 1..Len(last.fs)}

FetchedCases == {last.fc[i] : i \in 1..Len(last.fc)}

Built == last.op = "build_suite"

\* paths some section could have, among them paths no section has
CandidatePaths ==
    {Section_path(Heap, s) : s \in SecObjs} \cup Names
        \cup {n \o <<Slash>> \o m : n \in Names, m \in Names} \cup {<<>>, <<"z">>}

\* C8: build_suite produces a fully linked suite: suite.sections / suite.cases
\* hold exactly the fetched sections / cases keyed by id; a section whose
\* parent_id is the id of a fetched section has it as parent and is in its
\* sections mapping; a case whose section_id is the id of a fetched section is
\* linked to it and is in its cases mapping; section_for_path(s.path) is s for
\* every section whose path is unique, and None for a path no section has.
C8_BuildSuiteFullyLinked ==
    Built =>
        /\ last.err = NoError
        /\ Len(suite.sections) = Cardinality(FetchedSecs)
        /\ Len(suite.cases) = Cardinality(FetchedCases)
        /\ \A s \in FetchedSecs :
              /\ DictGet(suite.sections, secs[s].section_id) = s
              /\ secs[s].suite = TheSuite
              /\ \A p \in FetchedSecs : secs[s].parent_id = secs[p].section_id =>
                    /\ secs[s].parent = p
                    /\ DictGet(secs[p].sections, secs[s].section_id) = s
              /\ (\A t \in FetchedSecs \ {s} : Section_path(Heap, t) # Section_path(Heap, s)) =>
                    Suite_section_for_path(Heap, Section_path(Heap, s)) = s
        /\ \A c \in FetchedCases :
              /\ DictGet(suite.cases, cases[c].case_id) = c
              /\ cases[c].suite = TheSuite
              /\ \A p \in FetchedSecs : cases[c].section_id = secs[p].section_id =>
                    /\ cases[c].section = p
                    /\ DictGet(secs[p].cases, cases[c].case_id) = c
        /\ \A path \in CandidatePaths :
              (\A s \in FetchedSecs : Section_path(Heap, s) # path) =>
                    Suite_section_for_path(Heap, path) = None

C8_Witness ==
    /\ Built
    /\ Len(suite.sections) = NSec
    /\ Len(suite.cases) = NCase
    /\ \E s \in FetchedSecs, p \in FetchedSecs :
          /\ secs[p].parent = None
          /\ secs[s].parent = p
          /\ ChildCases(Heap, s) = FetchedCases
          /\ Suite_section_for_path(Heap, Section_path(Heap, s)) = s
          /\ Len(Section_path(Heap, s)) = 3

\* a parent_id / section_id that is set but is the id of no fetched section
DanglingSection(s) == secs[s].parent_id # None /\ \A p \in FetchedSecs : secs[p].section_id # secs[s].parent_id

DanglingCase(c) == cases[c].section_id # None /\ \A p \in FetchedSecs : secs[p].section_id # cases[c].section_id

\* C9: build_suite tolerates dangling parents: it completes without raising,
\* a fetched section whose parent_id is the id of no fetched section is
\* linked with parent None, and a case whose section_id is the id of no
\* fetched section is linked with section None.
C9_DanglingParentsBecomeRoots ==
    Built =>
        /\ last.err = NoError
        /\ \A s \in FetchedSecs : DanglingSection(s) =>
              /\ secs[s].parent = None
              /\ secs[s].suite = TheSuite
              /\ DictGet(suite.sections, secs[s].section_id) = s
        /\ \A c \in FetchedCases : DanglingCase(c) =>
              /\ cases[c].section = None
              /\ cases[c].suite = TheSuite
              /\ DictGet(suite.cases, cases[c].case_id) = c

C9_Witness ==
    /\ Built
    /\ last.err = NoError
    /\ \E s \in FetchedSecs : DanglingSection(s) /\ secs[s].parent = None /\ ChildSections(Heap, s) # {}
    /\ \E c \in FetchedCases : DanglingCase(c) /\ cases[c].section = None

\* --- DeletionHandler, soft = False
DeleteRequest(call, id) == <<[call |-> call, id |-> id, soft |-> 0]>>

\* C10 as stated: DeletionHandler(soft=False).delete_case(c) issues exactly one
\* remote delete request for c with soft=0 and afterwards c.case_id is in
\* neither suite.cases nor its former section's cases; delete_section(s)
\* likewise for s.section_id, suite.sections and its former parent's sections.
C10_HardDeleteAsStated ==
    /\ (last.op = "delete_case" /\ ~last.soft) =>
          /\ last.reqs = DeleteRequest("delete_case", CaseId(Pre, last.obj))
          /\ last.err = NoError =>
                /\ ~DictHas(suite.cases, CaseId(Pre, last.obj))
                /\ Pre.cs[last.obj].section # None =>
                      ~DictHas(secs[Pre.cs[last.obj].section].cases, CaseId(Pre, last.obj))
    /\ (last.op = "delete_section" /\ ~last.soft) =>
          /\ last.reqs = DeleteRequest("delete_section", SecId(Pre, last.obj))
          /\ last.err = NoError =>
                /\ ~DictHas(suite.sections, SecId(Pre, last.obj))
                /\ Pre.sec[last.obj].parent # None =>
                      ~DictHas(secs[Pre.sec[last.obj].parent].sections, SecId(Pre, last.obj))

\* C10 (amended): as stated, for a case c (section s) that has its suite
\* back-reference when the deletion is requested.
C10_HardDelete ==
    /\ (last.op = "delete_case" /\ ~last.soft) =>
          /\ last.reqs = DeleteRequest("delete_case", CaseId(Pre, last.obj))
          /\ last.err = NoError =>
                /\ Pre.cs[last.obj].suite # None => ~DictHas(suite.cases, CaseId(Pre, last.obj))
                /\ Pre.cs[last.obj].section # None =>
                      ~DictHas(secs[Pre.cs[last.obj].section].cases, CaseId(Pre, last.obj))
    /\ (last.op = "delete_section" /\ ~last.soft) =>
          /\ last.reqs = DeleteRequest("delete_section", SecId(Pre, last.obj))
          /\ last.err = NoError =>
                /\ Pre.sec[last.obj].suite # None => ~DictHas(suite.sections, SecId(Pre, last.obj))
                /\ Pre.sec[last.obj].parent # None =>
                      ~DictHas(secs[Pre.sec[last.obj].parent].sections, SecId(Pre, last.obj))

C10_Witness ==
    /\ last.op = "delete_section"
    /\ ~last.soft
    /\ last.err = NoError
    /\ LinkedInSuite(Pre, last.obj)
    /\ Pre.sec[last.obj].parent # None
    /\ last.obj \in ChildSections(Pre, Pre.sec[last.obj].parent)
    /\ ChildCases(Pre, last.obj) # {}
    /\ ~DictHas(suite.sections, SecId(Pre, last.obj))

\* --- DeletionHandler, soft = True
\* C11: soft deletion leaves the local graph untouched: with soft=True,
\* DeletionHandler.delete_case and delete_section issue one remote delete
\* request for the given id with soft=1 and change no mapping (suite.sections,
\* suite.cases, any section's sections / cases) and no back-reference.
C11_SoftDeleteLeavesGraph ==
    /\ (last.op = "delete_case" /\ last.soft) =>
          /\ last.reqs = <<[call |-> "delete_case", id |-> CaseId(Pre, last.obj), soft |-> 1]>>
          /\ Heap = Pre
    /\ (last.op = "delete_section" /\ last.soft) =>
          /\ last.reqs = <<[call |-> "delete_section", id |-> SecId(Pre, last.obj), soft |-> 1]>>
          /\ Heap = Pre

C11_Witness ==
    /\ last.op = "delete_section"
    /\ last.soft
    /\ last.err = NoError
    /\ LinkedInSuite(Heap, last.obj)
    /\ ChildSections(Heap, last.obj) # {}
    /\ \E d \in ChildSections(Heap, last.obj) : ChildCases(Heap, d) # {}
    /\ Len(last.reqs) = 1

\* --- MarkForDeletionHandler
Calls(reqs) == {reqs[i].call : i \in 1..Len(reqs)}

\* C12: the mark-for-deletion handler is never destructive: over any sequence
\* of its operations (delete_case, delete_section, delete_cases,
\* delete_sections, resolving the reserved sections) no remote delete-section
\* or delete-case request is issued; the only remote requests are
\* create-section, move-section and update-case.
C12_MarkNeverDeletes ==
    IsMark =>
        /\ Calls(last.reqs) \subseteq {"add_section", "move_section", "update_case"}
        /\ Calls(gen.reqs) \subseteq {"add_section", "move_section", "update_case"}

C12_Witness ==
    /\ IsMark
    /\ Consumed(gen)
    /\ Calls(gen.reqs) = {"add_section", "update_case"}
    /\ last.op = "Mark.delete_section"
    /\ last.err = NoError
    /\ Calls(last.reqs) = {"move_section"}

\* the instance is a value of the mapping
Holds(d, obj) == \E i \in 1..Len(d) : d[i].v = obj

RequestsOf(reqs, call) == SelectSeq(reqs, LAMBDA r : r.call = call)

\* a create-section request raised while the reserved sections were resolved
ResolutionFailed ==
    /\ last.err = RemoteError
    /\ last.reqs[Len(last.reqs)].call = "add_section"

\* C13: MarkForDeletionHandler.delete_case(c) issues exactly one update-case
\* request for c.case_id with section_id the id of the cases-holding reserved
\* section; provided the returned record carries the suite's id and that
\* section id, afterwards the given instance c is in neither its old
\* section's cases nor registered in the suite, the returned instance is
\* suite.cases[case_id], is in the reserved section's cases with its section
\* back-reference to it, and is the operation's result.
C13_MarkDeleteCase ==
    (last.op = "Mark.delete_case" /\ ~ResolutionFailed) =>
        LET c == last.obj
            id == CaseId(Pre, c)
            reserved == handler.cache[1]
            moved_case == Len(Pre.cs) + 1
        IN /\ RequestsOf(last.reqs, "update_case") =
                 <<[call |-> "update_case", id |-> id, section_id |-> secs[reserved].section_id]>>
           /\ (/\ last.err # RemoteError
               /\ cases[moved_case].suite_id = suite.suite_id
               /\ cases[moved_case].section_id = secs[reserved].section_id) =>
                 /\ last.err = NoError
                 /\ last.ret = <<moved_case>>
                 /\ Pre.cs[c].section # None => ~Holds(secs[Pre.cs[c].section].cases, c)
                 /\ ~Holds(suite.cases, c)
                 /\ DictHas(Pre.su.cases, id) => cases[c].suite = None
                 /\ DictGet(suite.cases, id) = moved_case
                 /\ DictGet(secs[reserved].cases, id) = moved_case
                 /\ cases[moved_case].section = reserved
                 /\ cases[moved_case].suite = TheSuite

C13_Witness ==
    /\ last.op = "Mark.delete_case"
    /\ last.err = NoError
    /\ Len(last.reqs) = 3
    /\ Pre.cs[last.obj].section # None
    /\ last.obj \in ChildCases(Pre, Pre.cs[last.obj].section)
    /\ last.ret = <<Len(Pre.cs) + 1>>
    /\ DictGet(secs[handler.cache[1]].cases, CaseId(Pre, last.obj)) = Len(Pre.cs) + 1

\* C14: MarkForDeletionHandler.delete_section(s) issues exactly one
\* move-section request for s.section_id with parent_id the id of the
\* sections-holding reserved section, then moves s locally so that s.parent
\* is that reserved section, s.parent_id is its id, s is registered in
\* suite.sections and in the reserved section's sections, and returns s.
C14_MarkDeleteSection ==
    (last.op = "Mark.delete_section" /\ ~ResolutionFailed) =>
        LET s == last.obj
            id == SecId(Pre, s)
            reserved == handler.cache[2]
        IN /\ RequestsOf(last.reqs, "move_section") =
                 <<[call |-> "move_section", id |-> id, parent_id |-> secs[reserved].section_id]>>
           /\ last.err # RemoteError =>
                 /\ last.err = NoError
                 /\ last.ret = <<s>>
                 /\ secs[s].parent = reserved
                 /\ secs[s].parent_id = secs[reserved].section_id
                 /\ DictGet(suite.sections, id) = s
                 /\ DictGet(secs[reserved].sections, id) = s

\* the heap when the running or finished bulk operation was called
AtCall == last.base

SectionLinked(h, s) == h.sec[s].suite # None /\ DictGet(h.su.sections, SecId(h, s)) = s

CaseLinked(h, c) == h.cs[c].suite # None /\ DictGet(h.su.cases, CaseId(h, c)) = c

\* the loop of a marking bulk operation has run over its whole list
MarkingConsumed(kind) ==
    /\ last.op = "end" /\ gen.kind = kind /\ gen.done /\ gen.err = NoError

SectionKeptUnderReserved(s) ==
    LET n == DictGet(suite.sections, SecId(AtCall, s))
    IN /\ DictHas(suite.sections, SecId(AtCall, s))
       /\ PathTerminates(Heap, n)
       /\ Startswith(Section_path(Heap, n), handler.name)

CaseKeptUnderReserved(c) ==
    LET n == DictGet(suite.cases, CaseId(AtCall, c))
    IN /\ DictHas(suite.cases, CaseId(AtCall, c))
       /\ cases[n].section # None
       /\ PathTerminates(Heap, cases[n].section)
       /\ Startswith(Case_path(Heap, n), handler.name)

\* C15: after MarkForDeletionHandler.delete_sections (delete_cases) has been
\* consumed without error over a list of sections (cases) that were linked
\* in the suite, in any order, every listed id is still registered in
\* suite.sections (suite.cases) and the registered node's path starts with
\* the reserved name.
C15_MarkingRelocates ==
    /\ (MarkingConsumed("Mark.delete_sections")
          /\ \A i \in 1..Len(gen.items) : SectionLinked(AtCall, gen.items[i]))
       => \A i \in 1..Len(gen.items) : SectionKeptUnderReserved(gen.items[i])
    /\ (MarkingConsumed("Mark.delete_cases")
          /\ \A i \in 1..Len(gen.items) : CaseLinked(AtCall, gen.items[i]))
       => \A i \in 1..Len(gen.items) : CaseKeptUnderReserved(gen.items[i])

\* the item of the last round of a marking loop was marked when it began
AlreadyUnderReserved ==
    IF gen.kind = "Mark.delete_sections"
    THEN Startswith(Section_path(Pre, last.obj), handler.name)
    ELSE /\ Pre.cs[last.obj].section # None
         /\ Startswith(Case_path(Pre, last.obj), handler.name)

\* the last round marked its case for the first time
FirstMarking ==
    last.err = NoError /\ RequestsOf(last.reqs, "update_case") # <<>>

\* the round did nothing but yield the instance it was given
RoundIsNoOp ==
    /\ last.err = NoError
    /\ last.reqs = <<>>
    /\ last.ret = <<last.obj>>
    /\ Heap = Pre

\* C16: marking is idempotent: delete_cases (delete_sections) issues no
\* update (move) request for a case (section) whose path already starts with
\* the reserved name, leaves the graph unchanged and yields the same
\* instance; hence marking the same case a second time issues no remote
\* update and returns the case unchanged.
C16_MarkingIdempotent ==
    /\ (last.op = "next" /\ gen.kind \in {"Mark.delete_sections", "Mark.delete_cases"}
          /\ AlreadyUnderReserved) => RoundIsNoOp
    /\ (last.op = "next" /\ gen.kind = "Mark.delete_cases"
          /\ last.obj \in last.marked /\ ~FirstMarking) => RoundIsNoOp

\* the loop of a marking bulk operation has stopped: at the end of its list
\* or on an exception
MarkingStopped ==
    /\ last.op \in {"next", "end"}
    /\ gen.kind \in {"Mark.delete_sections", "Mark.delete_cases"}
    /\ ~Live(gen)

\* the items of the list were sections or cases of the suite when it was given
ItemsOfSuite ==
    \A i \in 1..Len(gen.items) :
        IF gen.kind = "Mark.delete_sections" THEN SectionLinked(AtCall, gen.items[i])
        ELSE CaseLinked(AtCall, gen.items[i])

\* the service refused a request or answered with a record of another
\* suite or section
ServiceFailed == gen.err = RemoteError \/ gen.err.kind = "ValueError"

\* result i is the section given at i, or the instance of the case given at i
ResultFor(i) ==
    IF gen.kind = "Mark.delete_sections" THEN gen.results[i] = gen.items[i]
    ELSE CaseId(Heap, gen.results[i]) = CaseId(Heap, gen.items[i])

\* C17: the bulk operations of MarkForDeletionHandler yield exactly one
\* result per input, in input order, for every list of cases or sections of
\* the suite, whether a case is linked to a section or directly to the
\* suite, and whether an item is already marked or not.
C17_MarkingYieldsOnePerInput ==
    (MarkingStopped /\ ItemsOfSuite /\ ~ServiceFailed) =>
        /\ gen.err = NoError
        /\ Len(gen.results) = Len(gen.items)
        /\ \A i \in 1..Len(gen.items) : ResultFor(i)

\* the delete request DeletionHandler sends for item i of the list
DeleteRequestFor(i) ==
    IF gen.kind = "delete_sections"
    THEN [call |-> "delete_section", id |-> SecId(Heap, gen.items[i]), soft |-> SoftInt(handler.soft)]
    ELSE [call |-> "delete_case", id |-> CaseId(Heap, gen.items[i]), soft |-> SoftInt(handler.soft)]

\* C18: DeletionHandler.delete_sections and delete_cases, once consumed, have
\* issued exactly one remote delete request per element of the list, in the
\* order of the list, each carrying the handler's soft flag, and have
\* yielded exactly one result per element.
C18_HardBulkInOrder ==
    (gen.kind \in {"delete_sections", "delete_cases"} /\ Consumed(gen)) =>
        /\ Len(gen.reqs) = Len(gen.items)
        /\ \A i \in 1..Len(gen.items) : gen.reqs[i] = DeleteRequestFor(i)
        /\ Len(gen.results) = Len(gen.items)

C18_Witness ==
    /\ gen.kind = "delete_sections" /\ Consumed(gen)
    /\ handler.soft
    /\ Len(gen.items) = 2 /\ gen.items[1] # gen.items[2]
    /\ gen.reqs[1].id # gen.reqs[2].id

\* the last step was an operation of a MarkForDeletionHandler
MarkHandlerStep ==
    /\ last.hd.kind = "MarkForDeletionHandler"
    /\ last.op \in {"to_be_deleted_sections", "Mark.delete_section", "Mark.delete_case", "next"}

ReservedPath == last.hd.name

ReservedSectionsPath == last.hd.name \o SectionsSuffix

\* the two create-section calls of a first use: the reserved name at the
\* root, then "sections" under the section just created
TwoCreates ==
    <<[call |-> "add_section", name |-> ReservedPath, suite_id |-> suite.suite_id,
       parent_id |-> None],
      [call |-> "add_section", name |-> Tail(SectionsSuffix), suite_id |-> suite.suite_id,
       parent_id |-> secs[handler.cache[1]].section_id]>>

\* C19: the reserved sections are resolved once per handler: on a suite that
\* has neither of them the first use issues exactly two create-section
\* calls, for the reserved name and then for the reserved name + "/sections";
\* every later use of the handler issues no create-section call and returns
\* the same pair; when both sections exist no create-section call is issued.
C19_ResolvedOnce ==
    MarkHandlerStep =>
        /\ (last.hd.cache = <<>> /\ handler.cache # <<>>
              /\ Suite_section_for_path(Pre, ReservedPath) = None
              /\ Suite_section_for_path(Pre, ReservedSectionsPath) = None)
           => RequestsOf(last.reqs, "add_section") = TwoCreates
        /\ last.hd.cache # <<>>
           => /\ RequestsOf(last.reqs, "add_section") = <<>>
              /\ handler.cache = last.hd.cache
              /\ last.op = "to_be_deleted_sections" => last.ret = last.hd.cache
        /\ (last.hd.cache = <<>>
              /\ Suite_section_for_path(Pre, ReservedPath) # None
              /\ Suite_section_for_path(Pre, ReservedSectionsPath) # None)
           => /\ RequestsOf(last.reqs, "add_section") = <<>>
              /\ handler.cache # <<>> =>
                    handler.cache = <<Suite_section_for_path(Pre, ReservedPath),
                                      Suite_section_for_path(Pre, ReservedSectionsPath)>>

\* a later use, after a first use that created both sections
C19_Witness ==
    /\ MarkHandlerStep /\ last.op = "Mark.delete_section" /\ last.err = NoError
    /\ last.hd.cache = <<NSec + 1, NSec + 2>>
    /\ handler.cache = last.hd.cache
    /\ RequestsOf(last.reqs, "add_section") = <<>>
    /\ secs[NSec + 2].parent = NSec + 1

\* C20: deletion_handler_factory returns a MarkForDeletionHandler when
\* mark_for_deletion is absent or true, with the section name override
\* forwarded as the reserved name; it returns a DeletionHandler only when
\* mark_for_deletion is given as false, soft unless a soft flag is given,
\* which is then forwarded. Hence the handler really removes records only
\* when mark_for_deletion and soft are both given as false.
C20_FactorySelection ==
    last.op = "deletion_handler_factory" =>
        LET mark == last.cfg.mark_for_deletion
            name == last.cfg.mark_for_deletion_section_name
            soft == last.cfg.soft
        IN /\ (~mark.given \/ mark.value) =>
                 /\ handler.kind = "MarkForDeletionHandler"
                 /\ handler = MarkForDeletionHandler(name)
                 /\ (name.given /\ name.value # <<>>) => handler.name = name.value
                 /\ ~name.given => handler.name = DefaultName
           /\ handler.kind = "DeletionHandler" <=> (mark.given /\ ~mark.value)
           /\ handler.kind = "DeletionHandler" =>
                 handler.soft = (IF soft.given THEN soft.value ELSE TRUE)
           /\ (handler.kind = "DeletionHandler" /\ ~handler.soft) =>
                 /\ mark.given /\ ~mark.value
                 /\ soft.given /\ ~soft.value
           /\ handler.cache = <<>>

\* the opt-out without a soft flag gives a soft DeletionHandler
C20_Witness ==
    /\ last.op = "deletion_handler_factory"
    /\ last.cfg.mark_for_deletion = Given(FALSE)
    /\ ~last.cfg.soft.given
    /\ handler.kind = "DeletionHandler" /\ handler.soft

\* --- a remote failure inside a bulk operation
IsPrefix(a, b) == Len(a) <= Len(b) /\ SubSeq(b, 1, Len(a)) = a

IsSuffix(a, b) == Len(a) <= Len(b) /\ SubSeq(b, Len(b) - Len(a) + 1, Len(b)) = a

\* the last round of the loop raised the exception of its remote call
FailedRound == last.op = "next" /\ last.err = RemoteError

\* what the graph held before the failing round is still there: only
\* reserved sections created by the round itself were added
EarlierEffectsKept ==
    /\ cases = Pre.cs
    /\ suite.cases = Pre.su.cases
    /\ IsPrefix(Pre.su.sections, suite.sections)
    /\ \A s \in DOMAIN Pre.sec :
          /\ [secs[s] EXCEPT !.sections = Pre.sec[s].sections] = Pre.sec[s]
          /\ IsPrefix(Pre.sec[s].sections, secs[s].sections)
    /\ Len(last.reqs) = 1 => Heap = Pre

\* a generator that raised is never resumed: it stays as it is until the
\* handler is asked for a new bulk operation
NeverResumed == gen.err # NoError => (gen' = gen \/ last'.op = "start")

\* a round adds to what the operation has requested and yielded
RoundOnlyAdds ==
    last'.op = "next" => IsPrefix(gen.reqs, gen'.reqs) /\ IsPrefix(gen.results, gen'.results)

\* C21: partial progress on failure: when the remote call for an item of a
\* bulk operation (either handler) raises, the consumer receives that
\* exception, the failing request is the last one of the operation, the
\* requests and graph changes of the earlier items stay in place, and no
\* later item is requested or changed.
C21_PartialProgress ==
    /\ [](FailedRound =>
            /\ gen.err = RemoteError
            /\ ~Live(gen)
            /\ Len(gen.results) < Len(gen.items)
            /\ IsSuffix(last.reqs, gen.reqs)
            /\ EarlierEffectsKept)
    /\ [][NeverResumed /\ RoundOnlyAdds]_vars

\* the second item fails after the first one was deleted
C21_Witness ==
    /\ FailedRound
    /\ Len(gen.items) = 2 /\ Len(gen.results) = 1
    /\ Len(gen.reqs) = 2
    /\ Heap = Pre
    /\ Heap # AtCall

\* --- paginated fetches
RECURSIVE Flatten(_)
Flatten(pages) == IF pages = <<>> THEN <<>> ELSE Head(pages) \o Flatten(Tail(pages))

Pagers == {fetch.pagers[k] : k \in {k \in Paginated : fetch.pagers[k].kind # "none"}}

\* the service has served the generator in full pages: its largest page is
\* no smaller than the limit
FullPages(g) == fetch.cap >= g.limit

\* C22: pagination contract of get_projects, get_sections and get_cases: the
\* first request carries the given offset and limit; every following request
\* carries the same limit and the previous offset plus the number of records
\* of the previous page; no request follows a page of fewer than limit
\* records; the records of the received pages are yielded once each, in
\* order.  A collection of N records served in full pages from offset 0
\* takes N \div limit + 1 requests.
C22_PaginationContract ==
    \A g \in Pagers :
        /\ Len(g.pages) = Len(g.reqs)
        /\ g.reqs # <<>> => g.reqs[1] = [call |-> g.kind, limit |-> g.limit, offset |-> g.given]
        /\ \A i \in 2..Len(g.reqs) :
              /\ g.reqs[i].call = g.kind
              /\ g.reqs[i].limit = g.limit
              /\ g.reqs[i].offset = g.reqs[i - 1].offset + Len(g.pages[i - 1])
        /\ \A i \in 1..Len(g.pages) - 1 : Len(g.pages[i]) >= g.limit
        /\ IsPrefix(g.yielded, Flatten(g.pages))
        /\ g.done => /\ g.reqs # <<>>
                     /\ Len(g.pages[Len(g.pages)]) < g.limit
                     /\ g.yielded = Flatten(g.pages)
        /\ (g.done /\ FullPages(g) /\ g.given = 0) =>
              /\ Len(g.reqs) = (fetch.n[g.kind] \div g.limit) + 1
              /\ g.yielded = [i \in 1..fetch.n[g.kind] |-> i]

\* three records fetched one per page: four requests
C22_Witness ==
    \E g \in Pagers :
        /\ g.done /\ g.limit = 1 /\ g.given = 0
        /\ Len(g.reqs) = 4
        /\ g.reqs[4].offset = 3
        /\ g.yielded = <<1, 2, 3>>

\* --- TestRailCase.from_data / to_dict
\* the record holds every declared key
HoldsDeclared(record) == DeclaredKeys \subseteq DOMAIN record

\* C23: case round trip: for every wire record that holds the declared case
\* fields (integer timestamps, is_deleted 0 or 1) and any custom_ keys,
\* TestRailCase.from_data(record).to_dict() equals the record: same keys,
\* custom fields under their prefixed keys, timestamps and is_deleted with
\* their original values.
C23_CaseRoundTrip ==
    (probe.op = "dict" /\ HoldsDeclared(probe.record)) => probe.out = probe.record

\* --- TestRailCase.__getattr__
\* C24: custom-field access by bare name X, X no declared attribute: the
\* value stored under custom_X is returned when that key is in the
\* custom-field mapping; AttributeError naming custom_X is raised when it is
\* not; ValueError is raised when X is empty; the case is left as it was.
C24_CustomFieldAccess ==
    probe.op = "getattr" =>
        LET X == probe.attr
            custom_X == CustomPrefix \o X
            stored == probe.case.custom_fields
        IN /\ X = <<>> => probe.res = [err |-> "ValueError", named |-> <<>>, ret |-> <<>>]
           /\ (X # <<>> /\ custom_X \in DOMAIN stored) =>
                 /\ probe.res.err = "none"
                 /\ probe.res.ret = <<probe.record[custom_X]>>
           /\ (X # <<>> /\ custom_X \notin DOMAIN stored) =>
                 /\ probe.res.err = "AttributeError"
                 /\ probe.res.named = custom_X
                 /\ probe.res.ret = <<>>
           /\ probe.case = TestRailCase_from_data(probe.tz, probe.record)

\* a case with one custom field is asked for it under its prefixed name
C24_Witness ==
    /\ probe.op = "getattr"
    /\ DOMAIN probe.case.custom_fields = {Custom("uuid")}
    /\ probe.attr = Custom("uuid")
    /\ probe.res.err = "AttributeError"
    /\ probe.res.named = <<"custom_", "custom_", "uuid">>

\* --- request accounting
\* C25: request accounting: every remote request of the builder or of a
\* deletion handler comes with one increment of the counter of its
\* operation, once per page for the paginated fetches, so that since the
\* last reset every counter equals the number of requests of its operation
\* and stats.total equals the number of requests.
C25_RequestAccounting ==
    /\ \A name \in Counters : stats[name] = issued[name]
    /\ Stats_total(stats) = SumOver(issued, CounterNames)

\* a suite fetched in several pages, then a marking that creates the
\* reserved sections
C25_Witness ==
    /\ SuiteBuilt
    /\ stats["get_suite"] = 1 /\ stats["get_sections"] >= 2 /\ stats["get_cases"] >= 1
    /\ stats["add_section"] = 2 /\ stats["update_case"] = 1
    /\ Stats_total(stats) >= 7

\* --- TestRailAPIRequestStats.total
\* C26: in every state of the request-stats object, total equals the sum of
\* all of its named counters (the eighteen of CounterNames, delete_cases
\* among them), whatever values the counters have been set to.
C26_TotalIsSumOfAll == Stats_total(stats) = SumOver(stats, CounterNames)

\* --- unlink on an unlinked node, unlink twice
\* the section holds no child section and no case
NoChildren(h, s) == h.sec[s].sections = <<>> /\ h.sec[s].cases = <<>>

\* a second unlink of any node changes nothing that the first left
UnlinkIdempotent ==
    /\ \A s \in SecObjs : Section_unlink(Section_unlink(Heap, s), s) = Section_unlink(Heap, s)
    /\ \A c \in CaseObjs : Case_unlink(Case_unlink(Heap, c), c) = Case_unlink(Heap, c)

\* C27 as stated: unlink on a case or section that has no suite and no
\* parent / section changes nothing, and unlink twice in a row on any node
\* leaves the same graph as unlink once.
C27_UnlinkNoOpAsStated ==
    /\ (last.op = "Section.unlink" /\ UnlinkedSection(Pre, last.obj)) => Heap = Pre
    /\ (last.op = "Case.unlink" /\ UnlinkedCase(Pre, last.obj)) => Heap = Pre
    /\ UnlinkIdempotent

\* C27 (amended): unlink on a case that has no suite and no section, or on a
\* section that has no suite, no parent, no child sections and no cases,
\* changes nothing; unlink twice in a row on any node leaves the same graph
\* as unlink once.
C27_UnlinkNoOp ==
    /\ (last.op = "Section.unlink" /\ UnlinkedSection(Pre, last.obj) /\ NoChildren(Pre, last.obj))
          => Heap = Pre
    /\ (last.op = "Case.unlink" /\ UnlinkedCase(Pre, last.obj)) => Heap = Pre
    /\ UnlinkIdempotent

\* an unlinked section without children is unlinked in a graph that holds
\* links, and a linked case could be unlinked
C27_Witness ==
    /\ last.op = "Section.unlink"
    /\ UnlinkedSection(Pre, last.obj) /\ NoChildren(Pre, last.obj)
    /\ Heap = Pre
    /\ \E c \in CaseObjs : Case_unlink(Heap, c) # Heap

\* --- build_suite: fetch, then link
\* build_suite is running or has returned
Building == fetch.pc # "idle"

\* the requests sent since build_suite was called
BuildLog == SubSeq(fetch.log, fetch.from + 1, Len(fetch.log))

Rank(call) == CASE call = "get_suite" -> 0 [] call = "get_sections" -> 1 [] call = "get_cases" -> 2

\* both generators of build_suite have returned
Drained == fetch.pagers["get_sections"].done /\ fetch.pagers["get_cases"].done

\* C28: build_suite works fetch-then-link: the suite request comes first,
\* then every sections page request, then every cases page request; the first
\* link is made only after the last page of sections and the last page of
\* cases have been received, no link exists while a fetched sequence is
\* undrained, and the records linked are all the records received.
C28_FetchThenLink ==
    Building =>
        /\ BuildLog # <<>> /\ BuildLog[1].call = "get_suite"
        /\ \A i \in 2..Len(BuildLog) : BuildLog[i].call \in {"get_sections", "get_cases"}
        /\ \A i, j \in 1..Len(BuildLog) : i < j => Rank(BuildLog[i].call) <= Rank(BuildLog[j].call)
        /\ ~Drained => Fresh(Heap) /\ last.op # "build_suite"
        /\ fetch.pc \in {"link", "built"} => Drained
        /\ last.op = "build_suite" =>
              /\ last.fs = Flatten(fetch.pagers["get_sections"].pages)
              /\ last.fc = Flatten(fetch.pagers["get_cases"].pages)
              /\ Fresh(Pre)

\* a suite built from two pages of sections and the cases: every request
\* precedes the links
C28_Witness ==
    /\ SuiteBuilt /\ last.op = "build_suite"
    /\ Len(fetch.pagers["get_sections"].reqs) >= 2
    /\ Len(fetch.pagers["get_cases"].reqs) >= 1
    /\ Len(last.fs) >= 2 /\ Len(last.fc) >= 1
    /\ ~Fresh(Heap)

\* --- paginated fetching on demand
\* the records of every received page but the last
EarlierPages(g) == Flatten(SubSeq(g.pages, 1, Len(g.pages) - 1))

\* what the caller has got from the generator: its items, or its end
Answered(g) == Len(g.yielded) + (IF g.done THEN 1 ELSE 0)

\* a step in which the generator of kind k sends a request
SendsRequest(k) ==
    /\ fetch.pagers[k].kind = k /\ fetch'.pagers[k].kind = k
    /\ Len(fetch'.pagers[k].reqs) > Len(fetch.pagers[k].reqs)

\* a request is sent by a next() only: the step hands the caller an item or
\* the end, it sends one request, and the generator was not inside a page
RequestOnDemand ==
    \A k \in Paginated :
        SendsRequest(k) =>
            /\ Len(fetch'.pagers[k].reqs) = Len(fetch.pagers[k].reqs) + 1
            /\ Answered(fetch'.pagers[k]) = Answered(fetch.pagers[k]) + 1
            /\ ~InsidePage(fetch.pagers[k])
            /\ fetch.pagers[k].yielded = Flatten(fetch.pagers[k].pages)

\* C29: paginated fetching is demand-driven: get_projects, get_sections and
\* get_cases send no request until the caller asks for the first item, send
\* the request for page n+1 only after the caller has consumed every item of
\* page n, and a caller that stops inside page n causes no request for page
\* n+1.
C29_DemandDriven ==
    /\ [](\A g \in Pagers :
             /\ Answered(g) = 0 => g.reqs = <<>>
             /\ IsPrefix(EarlierPages(g), g.yielded)
             /\ InsidePage(g) => Len(g.yielded) < Len(Flatten(g.pages)))
    /\ [][RequestOnDemand]_vars

\* one generator is left inside its first page of two records after one
\* item, another has used up a page of two and asked for the second page
C29_Witness ==
    /\ \E g \in Pagers : /\ InsidePage(g) /\ Len(g.reqs) = 1
                         /\ Len(g.page) = 2 /\ Len(g.yielded) = 1
    /\ \E g \in Pagers : /\ Len(g.reqs) = 2 /\ Len(g.pages[1]) = 2
                         /\ Len(g.yielded) = 3 /\ ~g.done

\* --- bulk deletion, one item at a time
\* the last step created, resumed or ended the generator of the handler
InBulk == gen.kind # "none" /\ last.op \in {"start", "next", "end"}

OverSections == gen.kind \in {"Mark.delete_sections", "delete_sections"}

\* the instances that existed at the call and that no round has been given
LaterInputs ==
    (IF OverSections THEN DOMAIN AtCall.sec ELSE DOMAIN AtCall.cs)
        \ {gen.items[i] : i \in 1..Len(gen.items)}

\* a request that names the instance
NamesInput(req, x) ==
    IF OverSections
    THEN req.call \in {"delete_section", "move_section"} /\ req.id = SecId(AtCall, x)
    ELSE req.call \in {"delete_case", "update_case"} /\ req.id = CaseId(AtCall, x)

NeverSent(x) == \A i \in 1..Len(gen.reqs) : ~NamesInput(gen.reqs[i], x)

\* the instance has the fields and the back-references it had when the bulk
\* operation was called (its own mappings of children apart)
Untouched(x) ==
    IF OverSections
    THEN [secs[x] EXCEPT !.sections = AtCall.sec[x].sections, !.cases = AtCall.sec[x].cases]
             = AtCall.sec[x]
    ELSE cases[x] = AtCall.cs[x]

\* calling the bulk operation sends nothing and changes nothing
LazyStart == last.op = "start" => Heap = Pre /\ gen.reqs = <<>> /\ gen.results = <<>>

\* a result is handed over per round that ends without an exception
OneResultPerRound ==
    /\ Len(gen.results) = Len(gen.items) - (IF gen.err = NoError THEN 0 ELSE 1)
    /\ (last.op = "next" /\ last.err = NoError) => Len(last.ret) = 1

\* C30: bulk deletion is incremental for both handlers: a bulk operation
\* performs no remote call and no graph mutation until its first result is
\* requested; when the caller receives the k-th result exactly the first k
\* inputs have been processed; inputs after the k-th are never sent to the
\* remote service and stay unchanged in the graph.
C30_BulkIncremental ==
    InBulk =>
        /\ LazyStart
        /\ OneResultPerRound
        /\ \A x \in LaterInputs : NeverSent(x) /\ Untouched(x)

\* --- create_new_section_for_path
Created == last.op = "create_new_section_for_path"

\* the path is the parent path, a separator and a leaf without separator, or
\* a leaf alone
SplitsInto(path, nested, parent_path, leaf) ==
    /\ \A i \in 1..Len(leaf) : leaf[i] # Slash
    /\ path = (IF nested THEN parent_path \o <<Slash>> \o leaf ELSE leaf)

\* the registered sections whose path is the given one, in dict order
AtPath(h, path) ==
    {i \in 1..Len(h.su.sections) : Section_path(h, h.su.sections[i].v) = path}

\* what suite.section_for_path gives, None for no parent path
ResolvedParent(h, nested, parent_path) ==
    IF ~nested \/ AtPath(h, parent_path) = {} THEN None
    ELSE h.su.sections[CHOOSE i \in AtPath(h, parent_path) :
                           \A j \in AtPath(h, parent_path) : i <= j].v

\* the instance the operation returned
NewOne == last.ret[1]

CreatedAs(nested, parent_path, leaf) ==
    LET parent == ResolvedParent(Pre, nested, parent_path)
        parent_id == IF parent = None THEN None ELSE SecId(Pre, parent)
    IN /\ last.reqs = <<[call |-> "add_section", name |-> leaf, suite_id |-> Pre.su.suite_id,
                         parent_id |-> parent_id]>>
       /\ last.ok =>
             /\ last.err = NoError
             /\ NewOne \notin DOMAIN Pre.sec /\ NewOne \in DOMAIN secs
             /\ secs[NewOne].name = leaf
             /\ secs[NewOne].parent_id = parent_id
             /\ secs[NewOne].parent = parent
             /\ secs[NewOne].suite = TheSuite
             /\ DictGet(suite.sections, SecId(Heap, NewOne)) = NewOne
             /\ parent # None => DictGet(secs[parent].sections, SecId(Heap, NewOne)) = NewOne
             /\ cases = Pre.cs
             /\ \A t \in DOMAIN Pre.sec : t # parent => secs[t] = Pre.sec[t]

C32_CreatesAncestors ==
    (Created /\ last.ok /\ last.err = NoError) => Section_path(Heap, NewOne) = last.arg

\* --- the links after successful calls
\* the instance is a value of the mapping
HasValue(d, x) == \E i \in 1..Len(d) : d[i].v = x

\* C33: exclusive bidirectional consistency after any sequence of successful
\* link, unlink and move calls: a section s is in p.sections exactly when
\* s.parent is p and in suite.sections exactly when s.suite is the suite; a
\* case c is in sec.cases exactly when c.section is sec and in suite.cases
\* exactly when c.suite is the suite; no node is in the child mapping of two
\* parents.
C33_ExclusiveConsistency ==
    /\ \A s \in DOMAIN secs :
          /\ \A p \in DOMAIN secs : HasValue(secs[p].sections, s) <=> secs[s].parent = p
          /\ HasValue(suite.sections, s) <=> secs[s].suite = TheSuite
    /\ \A c \in DOMAIN cases :
          /\ \A t \in DOMAIN secs : HasValue(secs[t].cases, c) <=> cases[c].section = t
          /\ HasValue(suite.cases, c) <=> cases[c].suite = TheSuite

\* --- Section.move and the subtree
Moved == last.op = "Section.move" /\ last.err = NoError

KeySet(d) == {d[i].k : i \in 1..Len(d)}

\* C34: Section.move changes only the moved section's own parent link: its
\* child sections and cases stay in its sections and cases mappings and stay
\* registered in suite.sections and suite.cases, so the set of ids
\* registered in the suite is the same before and after the move.
C34_MoveKeepsSubtree ==
    Moved =>
        /\ secs[last.obj].sections = Pre.sec[last.obj].sections
        /\ secs[last.obj].cases = Pre.sec[last.obj].cases
        /\ KeySet(suite.sections) = KeySet(Pre.su.sections)
        /\ KeySet(suite.cases) = KeySet(Pre.su.cases)
        /\ \A t \in DOMAIN secs \ {last.obj} :
              secs[t].suite = Pre.sec[t].suite /\ secs[t].parent = Pre.sec[t].parent
        /\ cases = Pre.cs

\* --- back-references after Section.unlink
\* C35: after Section.unlink() the section and every descendant section and
\* every case beneath it have all back-references cleared: suite is None for
\* each, parent is None for each section and section is None for each case,
\* so no detached node still reports a path through the removed subtree.
C35_UnlinkClearsBackReferences ==
    (last.op = "Section.unlink" /\ LinkedInSuite(Pre, last.obj)) =>
        \A d \in Subtree(Pre, last.obj) :
            /\ secs[d].suite = None
            /\ secs[d].parent = None
            /\ \A c \in ChildCases(Pre, d) : cases[c].suite = None /\ cases[c].section = None

\* --- parent chains
\* C36: after any sequence of successful link, unlink and move calls
\* (a section moved under one of its own former descendants, a section
\* linked or moved under itself) the parent back-reference chain of every
\* section is finite and acyclic, so computing Section.path always
\* terminates.
C36_PathsTerminate == \A s \in DOMAIN secs : PathTerminates(Heap, s)

\* --- a remote failure inside a single-item operation
SingleOps == {"delete_section", "delete_case", "Mark.delete_section", "Mark.delete_case"}

\* the last step was a single-item operation whose remote request raised
FailedSingle == last.op \in SingleOps /\ last.err = RemoteError

\* the sections the operation made
MadeSections == DOMAIN secs \ DOMAIN Pre.sec

\* the graph is as before the call, apart from reserved sections that the
\* call created with the requests that preceded the failing one
OnlyReservedAdded ==
    /\ cases = Pre.cs
    /\ suite.cases = Pre.su.cases
    /\ IsPrefix(Pre.su.sections, suite.sections)
    /\ \A s \in DOMAIN Pre.sec :
          /\ [secs[s] EXCEPT !.sections = Pre.sec[s].sections] = Pre.sec[s]
          /\ IsPrefix(Pre.sec[s].sections, secs[s].sections)
    /\ Cardinality(MadeSections) = Len(last.reqs) - 1
    /\ \A i \in 1..Len(last.reqs) - 1 : last.reqs[i].call = "add_section"
    /\ \A n \in MadeSections :
          Section_path(Heap, n) \in {handler.name, handler.name \o SectionsSuffix}

\* C37 as stated: if the remote request of DeletionHandler.delete_section /
\* delete_case or of MarkForDeletionHandler.delete_section / delete_case
\* raises, every mapping and back-reference of the suite graph is exactly as
\* before the call.
C37_FailureLeavesGraphAsStated == FailedSingle => Heap = Pre

\* C37 (amended): if a remote request of one of the four single-item
\* operations raises, the exception reaches the caller and the graph is as
\* before the call, except for reserved sections that the same call created
\* with create-section requests that succeeded before the failing request;
\* a call whose first request fails changes nothing.
C37_FailureLeavesGraph ==
    /\ FailedSingle =>
          /\ last.ret = <<>>
          /\ last.reqs # <<>>
          /\ OnlyReservedAdded
          /\ Len(last.reqs) = 1 => Heap = Pre
    /\ (last.op \in {"delete_section", "delete_case"} /\ ~last.ok) => FailedSingle

\* the move request of a marking fails after the call created both
\* reserved sections
C37_Witness ==
    /\ FailedSingle /\ last.op = "Mark.delete_section"
    /\ Len(last.reqs) = 3 /\ last.reqs[3].call = "move_section"
    /\ Cardinality(MadeSections) = 2
    /\ secs[last.obj] = Pre.sec[last.obj]

\* --- the already-marked check of the marking bulk operations
RECURSIVE HasAncestor(_, _, _, _)
HasAncestor(h, s, a, fuel) ==
    IF s = None \/ fuel = 0 THEN FALSE
    ELSE s = a \/ HasAncestor(h, h.sec[s].parent, a, fuel - 1)

\* s is the reserved holding section or has it among its ancestors
UnderReserved(h, name, s) ==
    LET reserved == Suite_section_for_path(h, name)
    IN reserved # None /\ HasAncestor(h, s, reserved, Len(h.sec))

\* the last round of a marking bulk operation yielded its item without a
\* remote call
PassedThrough ==
    /\ last.op = "next" /\ last.hd.kind = "MarkForDeletionHandler"
    /\ last.err = NoError /\ last.reqs = <<>> /\ last.ret = <<last.obj>>

\* C38: a marking bulk operation passes an item through without a remote call
\* only if the item is the reserved holding section or has it among its
\* ancestors by parent back-references (for a case: its section is); every
\* other item is acted upon.
C38_AlreadyMarkedExact ==
    PassedThrough =>
       IF gen.kind = "Mark.delete_sections"
       THEN UnderReserved(Pre, last.hd.name, last.obj)
       ELSE /\ Pre.cs[last.obj].section # None
            /\ UnderReserved(Pre, last.hd.name, Pre.cs[last.obj].section)

\* --- the derived views of a built suite
\* the values of a mapping
DictValues(d) == {d[i].v : i \in 1..Len(d)}

\* C39: after build_suite over any fetched set, suite.direct_sections is
\* exactly the set of registered sections whose parent back-reference is None
\* and suite.direct_cases is exactly the set of registered cases whose section
\* back-reference is None.
C39_DirectViewsAgree ==
    (last.op = "build_suite" /\ last.err = NoError) =>
       /\ DictValues(Suite_direct_sections(Heap))
             = {x \in DictValues(suite.sections) : secs[x].parent = None}
       /\ DictValues(Suite_direct_cases(Heap))
             = {x \in DictValues(suite.cases) : cases[x].section = None}

\* --- termination of the paginated sequences
\* the response to the request that next() is about to send
NextResponse(g, n, cap) ==
    Page(n, cap, g.limit, IF g.started THEN g.offset + Len(g.page) ELSE g.offset)

\* the request lets next() return: its response holds a record to yield, or
\* is short and ends the while loop; otherwise the loop sends the same
\* request again, for the offset moves by the length of an empty response
MakesProgress(g, n, cap) ==
    LET response == NextResponse(g, n, cap)
    IN Len(response) > 0 \/ Len(response) < g.limit

\* C40: for every limit >= 0 and every service that serves a finite
\* collection with at most limit records per page, a get_projects /
\* get_sections / get_cases sequence sends finitely many requests and ends:
\* every request it is about to send is answered with a record to yield or
\* with the short page that ends the loop.
C40_PaginationTerminates ==
    \A kind \in Paginated :
       (fetch.pagers[kind].kind # "none" /\ Requests(fetch.pagers[kind]))
          => MakesProgress(fetch.pagers[kind], fetch.n[kind], fetch.cap)

====
